---- MODULE Spec2Model ----
(***************************************************************************)
(* Family budget dashboard: the rule-based classifier (categorizeExpense,  *)
(* both variants) and the cumulative series builders of ExpenseDashboard.  *)
(* Strings are sequences of one-character strings, so that toLowerCase,    *)
(* trim and includes are computed character by character as the JavaScript *)
(* built-ins compute them.  Amounts are integers (cents).                  *)
(***************************************************************************)
EXTENDS Integers, Sequences, FiniteSets, TLC

VARIABLES
    categories,   \* string[]: the ordered category list
    patterns,     \* Patterns = Record<string, string[]>
    desc,         \* the description handed to categorizeExpense
    amount,       \* the amount handed to the amount-aware categorizeExpense
    call,         \* which operation has run: "none" before any call
    result,       \* the value the called operation returned
    expenses,     \* Expense[]: the classified transactions
    category,     \* the category argument of the series builders
    kind,         \* the kind argument of getCumulativeTotalAndDataMonths
    year,         \* the year argument of the monthly series builders
    m,            \* loop variable of the month loop
    cumSum,       \* locals of the monthly series builders
    cum,
    hasData,
    started,
    targets,      \* App state: Record<string, number>
    remarks,      \* App state: Record<string, string>
    error,        \* App state: string | null ("null" when there is none)
    editOpen,     \* App state: the edit dialog is open
    targetsDraft, \* App state: the targets being edited in the dialog
    remarksDraft, \* App state: the remarks being edited in the dialog
    pending,      \* the handler invocations suspended on await file.arrayBuffer()
    ctx,          \* the segment context Chart.js hands to the borderDash callback
    rows          \* the rows of an expense file: date, description, amount

classifierVars == <<categories, patterns, desc, amount>>
seriesVars == <<expenses, category, kind, year, m, cumSum, cum, hasData, started>>
appVars == <<targets, remarks, error, editOpen, targetsDraft, remarksDraft, pending>>
vars == <<categories, patterns, desc, amount, call, result,
          expenses, category, kind, year, m, cumSum, cum, hasData, started,
          targets, remarks, error, editOpen, targetsDraft, remarksDraft, pending, ctx, rows>>

----------------------------------------------------------------------------
(* Bounds of the model *)

\* longest category list
MaxCats == 2
\* most patterns held by the patterns map, all categories together
MaxPatterns == 2
\* longest transaction list
MaxTx == 2

----------------------------------------------------------------------------
(* JavaScript string built-ins *)

LowerChar(c) ==
    CASE c = "A" -> "a"
      [] c = "B" -> "b"
      [] c = "C" -> "c"
      [] c = "D" -> "d"
      [] c = "E" -> "e"
      [] c = "F" -> "f"
      [] c = "G" -> "g"
      [] c = "H" -> "h"
      [] c = "I" -> "i"
      [] c = "J" -> "j"
      [] c = "K" -> "k"
      [] c = "L" -> "l"
      [] c = "M" -> "m"
      [] c = "N" -> "n"
      [] c = "O" -> "o"
      [] c = "P" -> "p"
      [] c = "Q" -> "q"
      [] c = "R" -> "r"
      [] c = "S" -> "s"
      [] c = "T" -> "t"
      [] c = "U" -> "u"
      [] c = "V" -> "v"
      [] c = "W" -> "w"
      [] c = "X" -> "x"
      [] c = "Y" -> "y"
      [] c = "Z" -> "z"
      [] OTHER -> c

toLowerCase(s) == [i \in 1..Len(s) |-> LowerChar(s[i])]

IsSpace(c) == c = " "

RECURSIVE trimStart(_)
trimStart(s) ==
    IF s # <<>> /\ IsSpace(Head(s)) THEN trimStart(Tail(s)) ELSE s

RECURSIVE trimEnd(_)
trimEnd(s) ==
    IF s # <<>> /\ IsSpace(s[Len(s)]) THEN trimEnd(SubSeq(s, 1, Len(s) - 1)) ELSE s

trim(s) == trimEnd(trimStart(s))

\* String.prototype.includes: sub occurs in s at some offset (the empty string
\* occurs in every string)
includes(s, sub) ==
    \E k \in 0..(Len(s) - Len(sub)) : SubSeq(s, k + 1, k + Len(sub)) = sub

\* Array.prototype.includes
arrayIncludes(arr, x) == \E i \in 1..Len(arr) : arr[i] = x

\* truthiness of a string: only the empty string is falsy
Truthy(s) == s # <<>>

----------------------------------------------------------------------------
(* String literals of the source *)

INCOME == <<"i", "n", "c", "o", "m", "e">>
OTHER_CAT == <<"O", "t", "h", "e", "r">>
EMPTY == <<>>

----------------------------------------------------------------------------
(* categorizeExpense, amount-aware variant (desc, amount, patterns, categories) *)

\* patterns[cat] || []
PatsOf(pats, cat) == IF cat \in DOMAIN pats THEN pats[cat] ELSE <<>>

\* line 19: pat && lc.includes(pat.toLowerCase())
PatternMatchesAware(lc, pat) == Truthy(pat) /\ includes(lc, toLowerCase(pat))

\* lines 18-22: the inner loop returns at the first matching pattern
AnyPatternAware(lc, pats) ==
    \E j \in 1..Len(pats) : PatternMatchesAware(lc, pats[j])

\* a skip of the category spelled "income" only
SkippedAwareCaseSensitive(cat) == cat = INCOME

\* line 16: if (cat.toLowerCase() === "income") continue
SkippedAware(cat) == toLowerCase(cat) = INCOME

\* a loop that keeps scanning and returns the last matching category
LoopAwareLastWins(lc, pats, cats, i) ==
    LET M == {k \in i..Len(cats) :
                 ~SkippedAware(cats[k]) /\ AnyPatternAware(lc, PatsOf(pats, cats[k]))}
    IN IF M = {} THEN 0 ELSE CHOOSE k \in M : \A n \in M : n <= k

\* lines 15-23: index of the category the loop returns, 0 when it falls through
RECURSIVE LoopAware(_, _, _, _)
LoopAware(lc, pats, cats, i) ==
    IF i > Len(cats) THEN 0
    ELSE IF SkippedAware(cats[i]) THEN LoopAware(lc, pats, cats, i + 1)
    ELSE IF AnyPatternAware(lc, PatsOf(pats, cats[i])) THEN i
    ELSE LoopAware(lc, pats, cats, i + 1)

\* a short-circuit that does not look for "income" in the list
ShortCircuitAnyList(amt, cats) == amt > 0

\* line 11: amount > 0 && categories.includes("income")
ShortCircuit(amt, cats) == amt > 0 /\ arrayIncludes(cats, INCOME)

\* a fallback that prefers the first category to "Other"
FallbackFirst(cats) == IF Len(cats) > 0 THEN cats[1] ELSE EMPTY

\* lines 25-26 and 45-46
Fallback(cats) ==
    IF arrayIncludes(cats, OTHER_CAT) THEN OTHER_CAT
    ELSE IF Len(cats) > 0 THEN cats[1] ELSE EMPTY

\* the classifier comparing the description as written, not lower-cased
categorizeExpenseAsWritten(d, amt, pats, cats) ==
    IF ShortCircuit(amt, cats) THEN INCOME
    ELSE LET i == LoopAware(d, pats, cats, 1)
         IN IF i > 0 THEN cats[i] ELSE Fallback(cats)

categorizeExpenseAmountAware(d, amt, pats, cats) ==
    IF ShortCircuit(amt, cats) THEN INCOME
    ELSE LET lc == toLowerCase(d)
             i == LoopAware(lc, pats, cats, 1)
         IN IF i > 0 THEN cats[i] ELSE Fallback(cats)

----------------------------------------------------------------------------
(* categorizeExpense, pattern-only variant (desc, patterns, categories) *)

\* line 40: pat && lc.includes(pat.toLowerCase().trim())
PatternMatchesOnly(lc, pat) == Truthy(pat) /\ includes(lc, trim(toLowerCase(pat)))

AnyPatternOnly(lc, pats) ==
    \E j \in 1..Len(pats) : PatternMatchesOnly(lc, pats[j])

RECURSIVE LoopOnly(_, _, _, _)
LoopOnly(lc, pats, cats, i) ==
    IF i > Len(cats) THEN 0
    ELSE IF AnyPatternOnly(lc, PatsOf(pats, cats[i])) THEN i
    ELSE LoopOnly(lc, pats, cats, i + 1)

categorizeExpensePatternOnly(d, pats, cats) ==
    LET lc == toLowerCase(d)
        i == LoopOnly(lc, pats, cats, 1)
    IN IF i > 0 THEN cats[i] ELSE Fallback(cats)

----------------------------------------------------------------------------
(* Inputs of the classifier *)

FOOD == <<"F", "o", "o", "d">>
INCOME_CAP == <<"I", "n", "c", "o", "m", "e">>

\* category names: never empty (handleTemplateImport skips rows without a name)
CatNames == {INCOME, INCOME_CAP, OTHER_CAT, FOOD}

SeqsUpTo(S, n) == UNION {[1..k -> S] : k \in 0..n}

CategoryLists == SeqsUpTo(CatNames, MaxCats)

Pats == {<<>>, <<" ">>, <<"r">>, <<" ", "r">>, <<"R", " ">>}

Descs == {<<>>, <<"r">>, <<"R", " ">>, <<"e", " ", "r">>, <<"e">>}

Amounts == {-1, 0, 1}

Range(s) == {s[i] : i \in 1..Len(s)}

NonEmptyPatLists(n) == UNION {[1..k -> Pats] : k \in 1..n}

\* the pattern maps over the keys K holding at most n patterns in all; a key
\* without patterns is absent from the map (read back as patterns[cat] || [])
RECURSIVE PatternMaps(_, _)
PatternMaps(K, n) ==
    IF K = {} THEN {<<>>}
    ELSE LET k == CHOOSE x \in K : TRUE
         IN PatternMaps(K \ {k}, n)
            \cup UNION {{(k :> l) @@ rest : rest \in PatternMaps(K \ {k}, n - Len(l))} :
                           l \in NonEmptyPatLists(n)}

----------------------------------------------------------------------------
(* App state after construction: the useState initial values, App.tsx lines 18-29 *)

NoMap == <<>>

\* no segment is being drawn
NoCtx == [p0DataIndex |-> 0, p1DataIndex |-> 0]

AppStateInitial ==
    /\ targets = NoMap
    /\ remarks = NoMap
    /\ error = "null"
    /\ editOpen = FALSE
    /\ targetsDraft = NoMap
    /\ remarksDraft = NoMap
    /\ pending = {}

----------------------------------------------------------------------------
(* Specification of the classifier calls *)

InitClassify ==
    /\ categories \in CategoryLists
    /\ patterns \in PatternMaps(Range(categories), MaxPatterns)
    /\ desc \in Descs
    /\ amount \in Amounts
    /\ call = "none"
    /\ result = EMPTY
    /\ expenses = <<>>
    /\ category = EMPTY
    /\ kind = "none"
    /\ year = 0
    /\ m = 0
    /\ cumSum = 0
    /\ cum = <<>>
    /\ hasData = <<>>
    /\ started = FALSE
    /\ AppStateInitial
    /\ ctx = NoCtx
    /\ rows = <<>>

ClassifyAmountAware ==
    /\ call = "none"
    /\ call' = "aware"
    /\ result' = categorizeExpenseAmountAware(desc, amount, patterns, categories)
    /\ UNCHANGED <<classifierVars, seriesVars, appVars, ctx, rows>>

ClassifyPatternOnly ==
    /\ call = "none"
    /\ call' = "only"
    /\ result' = categorizeExpensePatternOnly(desc, patterns, categories)
    /\ UNCHANGED <<classifierVars, seriesVars, appVars, ctx, rows>>

NextClassify == ClassifyAmountAware \/ ClassifyPatternOnly

SpecClassify == InitClassify /\ [][NextClassify]_vars

----------------------------------------------------------------------------
(* Expense records and dates *)

\* Date.getFullYear, Date.getMonth (0 = January) and the numeric value of a date
getFullYear(d) == d.y
getMonth(d) == d.mo
getTime(d) == (d.y * 12 + d.mo) * 31 + d.day

Abs(x) == IF x < 0 THEN -x ELSE x

\* Array.prototype.reduce((sum, x) => sum + x, 0)
RECURSIVE SumSeq(_)
SumSeq(nums) == IF nums = <<>> THEN 0 ELSE Head(nums) + SumSeq(Tail(nums))


----------------------------------------------------------------------------
(* getCumulativePerMonthAndDataMonths(expenses, category, year) *)

\* the month filter reading months as 1..12
FilterPerMonthOneBased(exps, cat, y, mo) ==
    SelectSeq(exps, LAMBDA e : /\ e.category = cat
                               /\ getFullYear(e.date) = y
                               /\ getMonth(e.date) = mo + 1)

\* lines 43-47
FilterPerMonth(exps, cat, y, mo) ==
    SelectSeq(exps, LAMBDA e : /\ e.category = cat
                               /\ getFullYear(e.date) = y
                               /\ getMonth(e.date) = mo)

\* the sign rule without the abs of expense amounts
DeltaPerMonthRaw(e, cat) == e.amount

\* line 48: category.toLowerCase() === "income" ? e.amount : Math.abs(e.amount)
DeltaPerMonth(e, cat) ==
    IF toLowerCase(cat) = INCOME THEN e.amount ELSE Abs(e.amount)

\* line 48
MonthSumPerMonth(filtered, cat) ==
    SumSeq([i \in 1..Len(filtered) |-> DeltaPerMonth(filtered[i], cat)])

----------------------------------------------------------------------------
(* getCumulativeTotalAndDataMonths(expenses, kind, year, categories) *)

\* the filter comparing the category with "income" case-sensitively
FilterTotalCaseSensitive(exps, k, y, mo) ==
    IF k = "income"
    THEN SelectSeq(exps, LAMBDA e : /\ e.category = INCOME
                                    /\ getFullYear(e.date) = y
                                    /\ getMonth(e.date) = mo)
    ELSE SelectSeq(exps, LAMBDA e : /\ e.category # INCOME
                                    /\ getFullYear(e.date) = y
                                    /\ getMonth(e.date) = mo)

\* lines 77-90
FilterTotal(exps, k, y, mo) ==
    IF k = "income"
    THEN SelectSeq(exps, LAMBDA e : /\ toLowerCase(e.category) = INCOME
                                    /\ getFullYear(e.date) = y
                                    /\ getMonth(e.date) = mo)
    ELSE SelectSeq(exps, LAMBDA e : /\ toLowerCase(e.category) # INCOME
                                    /\ getFullYear(e.date) = y
                                    /\ getMonth(e.date) = mo)

\* lines 91-92
MonthSumTotal(filtered, k) ==
    SumSeq([i \in 1..Len(filtered) |->
               IF k = "income" THEN filtered[i].amount ELSE Abs(filtered[i].amount)])

----------------------------------------------------------------------------
(* The month loop shared by the two monthly builders (lines 50-61 and 94-105) *)

MonthsPerYear == 12

\* a flag that records a nonzero month sum instead of the presence of transactions
HasDataFlagBySum(filtered, monthSum) == monthSum # 0

\* lines 61 and 105: filtered.length > 0
HasDataFlag(filtered, monthSum) == Len(filtered) > 0

LoopBody(filtered, monthSum) ==
    IF ~started /\ monthSum = 0
    THEN /\ cum' = Append(cum, 0)
         /\ hasData' = Append(hasData, FALSE)
         /\ UNCHANGED <<cumSum, started>>
    ELSE /\ started' = TRUE
         /\ cumSum' = cumSum + monthSum
         /\ cum' = Append(cum, cumSum + monthSum)
         /\ hasData' = Append(hasData, HasDataFlag(filtered, monthSum))

----------------------------------------------------------------------------
(* getCumulativePoints(expenses, category) *)

\* position before the elements of the sorted array with the date of e
InsertSortedBeforeEqual(sorted, e) ==
    LET k == Cardinality({i \in 1..Len(sorted) : getTime(sorted[i].date) < getTime(e.date)})
    IN SubSeq(sorted, 1, k) \o <<e>> \o SubSeq(sorted, k + 1, Len(sorted))

\* position after the elements of the sorted array that do not come after e
InsertSorted(sorted, e) ==
    LET k == Cardinality({i \in 1..Len(sorted) : getTime(sorted[i].date) <= getTime(e.date)})
    IN SubSeq(sorted, 1, k) \o <<e>> \o SubSeq(sorted, k + 1, Len(sorted))

\* the copy left in the order of the file
SortByDateOmitted(exps) == exps

\* line 68: [...expenses].sort((a, b) => +a.date - +b.date), a stable sort
RECURSIVE SortByDate(_)
SortByDate(exps) ==
    IF exps = <<>> THEN <<>>
    ELSE InsertSorted(SortByDate(SubSeq(exps, 1, Len(exps) - 1)), exps[Len(exps)])

\* lines 70-78
DeltaPoints(e, cat) ==
    IF cat = INCOME THEN e.amount
    ELSE IF e.amount > 0 THEN -e.amount ELSE Abs(e.amount)

\* lines 69-87: running is the sum of the deltas up to the point
getCumulativePoints(exps, cat) ==
    LET sorted == SortByDate(exps)
    IN [i \in 1..Len(sorted) |->
           [x |-> sorted[i].date,
            y |-> SumSeq([j \in 1..i |-> DeltaPoints(sorted[j], cat)]),
            amount |-> sorted[i].amount,
            description |-> sorted[i].description,
            date |-> sorted[i].date]]

----------------------------------------------------------------------------
(* Inputs of the series builders *)

Dates == {[y |-> 2024, mo |-> 6, day |-> 1],
          [y |-> 2025, mo |-> 2, day |-> 1],
          [y |-> 2025, mo |-> 6, day |-> 1],
          [y |-> 2025, mo |-> 11, day |-> 1]}

TxAmounts == {-5, 0, 5}

TxCategories == {INCOME, INCOME_CAP, FOOD}

ExpenseRecords ==
    [date : Dates, description : {<<"r">>}, amount : TxAmounts, category : TxCategories]

\* thisYear = new Date().getFullYear()
ThisYears == {2025}

----------------------------------------------------------------------------
(* Specification of the series builders *)

InitSeries ==
    /\ expenses \in SeqsUpTo(ExpenseRecords, MaxTx)
    /\ categories = <<>>
    /\ patterns = <<>>
    /\ desc = EMPTY
    /\ amount = 0
    /\ call = "none"
    /\ result = EMPTY
    /\ category = EMPTY
    /\ kind = "none"
    /\ year = 0
    /\ m = 0
    /\ cumSum = 0
    /\ cum = <<>>
    /\ hasData = <<>>
    /\ started = FALSE
    /\ AppStateInitial
    /\ ctx = NoCtx
    /\ rows = <<>>

\* getCumulativePerMonthAndDataMonths is entered: lines 37-40
CallPerMonth ==
    /\ call = "none"
    /\ \E c \in TxCategories, y \in ThisYears :
          /\ category' = c
          /\ year' = y
    /\ call' = "perMonth"
    /\ m' = 0
    /\ cumSum' = 0
    /\ cum' = <<>>
    /\ hasData' = <<>>
    /\ started' = FALSE
    /\ UNCHANGED <<classifierVars, result, expenses, kind, appVars, ctx, rows>>

\* one iteration of its month loop: lines 42-62
PerMonthStep ==
    /\ call = "perMonth"
    /\ m < MonthsPerYear
    /\ LET filtered == FilterPerMonth(expenses, category, year, m)
       IN LoopBody(filtered, MonthSumPerMonth(filtered, category))
    /\ m' = m + 1
    /\ UNCHANGED <<classifierVars, call, result, expenses, category, kind, year, appVars, ctx, rows>>

\* getCumulativeTotalAndDataMonths is entered: lines 71-74
CallTotal ==
    /\ call = "none"
    /\ \E k \in {"expenses", "income"}, y \in ThisYears :
          /\ kind' = k
          /\ year' = y
    /\ call' = "total"
    /\ m' = 0
    /\ cumSum' = 0
    /\ cum' = <<>>
    /\ hasData' = <<>>
    /\ started' = FALSE
    /\ UNCHANGED <<classifierVars, result, expenses, category, appVars, ctx, rows>>

\* one iteration of its month loop: lines 76-106
TotalStep ==
    /\ call = "total"
    /\ m < MonthsPerYear
    /\ LET filtered == FilterTotal(expenses, kind, year, m)
       IN LoopBody(filtered, MonthSumTotal(filtered, kind))
    /\ m' = m + 1
    /\ UNCHANGED <<classifierVars, call, result, expenses, category, kind, year, appVars, ctx, rows>>

\* the per-transaction view: getCumulativePoints(expenses.filter(e => e.category === cat), cat)
CallPoints ==
    /\ call = "none"
    /\ \E c \in TxCategories :
          /\ category' = c
          /\ result' = getCumulativePoints(
                           SelectSeq(expenses, LAMBDA e : e.category = c), c)
    /\ call' = "points"
    /\ UNCHANGED <<classifierVars, expenses, kind, year, m, cumSum, cum, hasData, started, appVars, ctx, rows>>

\* getCumulativePerMonth(expenses, category, year), part_001 lines 520-534: the
\* month loop without the started gate; the sign rule compares the category
\* with "income" as written
getCumulativePerMonth(exps, cat, y) ==
    [i1 \in 1..MonthsPerYear |->
        SumSeq([k \in 1..i1 |->
            LET filtered == FilterPerMonth(exps, cat, y, k - 1)
            IN SumSeq([j \in 1..Len(filtered) |->
                          IF cat = INCOME THEN filtered[j].amount
                          ELSE Abs(filtered[j].amount)])])]

\* getCumulativeTotal(expenses, kind, year), part_001 lines 541-563: the filters
\* compare e.category with "income" as written
getCumulativeTotal(exps, k, y) ==
    [i1 \in 1..MonthsPerYear |->
        SumSeq([n \in 1..i1 |->
            LET filtered ==
                    SelectSeq(exps, LAMBDA e : /\ (k = "income") = (e.category = INCOME)
                                               /\ getFullYear(e.date) = y
                                               /\ getMonth(e.date) = n - 1)
            IN SumSeq([j \in 1..Len(filtered) |->
                          IF k = "income" THEN filtered[j].amount
                          ELSE Abs(filtered[j].amount)])])]

NextPerMonth == CallPerMonth \/ PerMonthStep

NextMonthly == CallPerMonth \/ PerMonthStep \/ CallTotal \/ TotalStep

SpecMonthly == InitSeries /\ [][NextMonthly]_vars

SpecPerMonth == InitSeries /\ [][NextPerMonth]_vars

NextTotal == CallTotal \/ TotalStep

SpecTotal == InitSeries /\ [][NextTotal]_vars

NextPoints == CallPoints

SpecPoints == InitSeries /\ [][NextPoints]_vars

----------------------------------------------------------------------------
(* JavaScript numbers: IEEE 754 binary64 with round-to-nearest, ties-to-even. *)
(* A nonzero number is [neg, mant, exp]: mant is the 53-bit significand, most *)
(* significant bit first and equal to 1, and the value is mant * 2^exp.  Zero  *)
(* has an all-zero significand.                                              *)

SignificandBits == 53

\* the binary digits of a natural number, most significant first
RECURSIVE Bits(_)
Bits(n) == IF n = 0 THEN <<>> ELSE Append(Bits(n \div 2), n % 2)

Zeros(k) == [i \in 1..k |-> 0]

\* bits + 1 on a fixed width: the sum and the carry out
Increment(b) ==
    LET zeroAt == {i \in 1..Len(b) : b[i] = 0}
    IN IF zeroAt = {} THEN [bits |-> Zeros(Len(b)), carry |-> 1]
       ELSE LET p == CHOOSE i \in zeroAt : \A j \in zeroAt : j <= i
            IN [bits |-> [i \in 1..Len(b) |-> IF i < p THEN b[i] ELSE IF i = p THEN 1 ELSE 0],
                carry |-> 0]

\* round a bit string with leading 1 (followed by a nonzero remainder when
\* sticky) to the significand width: the significand and the exponent shift
RoundBits(b, sticky) ==
    IF Len(b) <= SignificandBits
    THEN [mant |-> b \o Zeros(SignificandBits - Len(b)),
          shift |-> -(SignificandBits - Len(b))]
    ELSE LET kept == SubSeq(b, 1, SignificandBits)
             tail == SubSeq(b, SignificandBits + 1, Len(b))
             up == /\ tail[1] = 1
                   /\ \/ \E i \in 2..Len(tail) : tail[i] = 1
                      \/ sticky
                      \/ kept[SignificandBits] = 1
             r == Increment(kept)
         IN IF ~up THEN [mant |-> kept, shift |-> Len(tail)]
            ELSE IF r.carry = 1
                 THEN [mant |-> <<1>> \o Zeros(SignificandBits - 1), shift |-> Len(tail) + 1]
                 ELSE [mant |-> r.bits, shift |-> Len(tail)]

\* 2^n mod b, by repeated squaring
RECURSIVE Pow2Mod(_, _)
Pow2Mod(n, b) ==
    IF n = 0 THEN 1 % b
    ELSE LET h == Pow2Mod(n \div 2, b)
         IN IF n % 2 = 0 THEN (h * h) % b ELSE (2 * h * h) % b

\* the remainder of r * 2^n divided by b
RemAfter(r, b, n) == (r * Pow2Mod(n, b)) % b

\* the n-th bit after the binary point of r / b, for 0 <= r < b
FractionBit(r, b, n) == IF 2 * RemAfter(r, b, n - 1) >= b THEN 1 ELSE 0

\* long division of r / b, for 0 <= r < b, continuing the integer part acc:
\* quotient bits from the leading 1 until one bit more than the significand
DivBits(r, b, acc) ==
    LET lead == IF acc # <<>> THEN 1
                ELSE CHOOSE n \in 1..(2 * SignificandBits) :
                         /\ FractionBit(r, b, n) = 1
                         /\ \A j \in 1..(n - 1) : FractionBit(r, b, j) = 0
        nfrac == lead + (SignificandBits - Len(acc))
    IN [bits |-> acc \o [i \in 1..(nfrac - lead + 1) |-> FractionBit(r, b, lead + i - 1)],
        nfrac |-> nfrac,
        rem |-> RemAfter(r, b, nfrac)]

ZeroNumber == [neg |-> FALSE, mant |-> Zeros(SignificandBits), exp |-> 0]

IsZeroNumber(x) == x.mant = Zeros(SignificandBits)

\* an integer as a number
FromInt(n) ==
    IF n = 0 THEN ZeroNumber
    ELSE LET r == RoundBits(Bits(Abs(n)), FALSE)
         IN [neg |-> n < 0, mant |-> r.mant, exp |-> r.shift]

\* a / b for integers a >= 0 and b > 0: the correctly rounded quotient
Divide(a, b) ==
    IF a = 0 THEN ZeroNumber
    ELSE LET q == DivBits(a % b, b, Bits(a \div b))
             r == RoundBits(q.bits, q.rem # 0)
         IN [neg |-> FALSE, mant |-> r.mant, exp |-> r.shift - q.nfrac]

\* the value of a bit string of at most LimbBits bits
BitsValue(b) == SumSeq([i \in 1..Len(b) |-> b[i] * 2^(Len(b) - i)])

\* the w low bits of a natural number
LowBits(n, w) == [i \in 1..w |-> (n \div 2^(w - i)) % 2]

\* the product is formed limb by limb, so that no intermediate value
\* exceeds the integers of the model
LimbBits == 18

\* the bit string of bits * t + carry for a natural number t < 2^12
RECURSIVE MulBits(_, _, _)
MulBits(b, t, carry) ==
    IF Len(b) <= LimbBits THEN Bits(t * BitsValue(b) + carry)
    ELSE LET lo == SubSeq(b, Len(b) - LimbBits + 1, Len(b))
             sum == t * BitsValue(lo) + carry
         IN MulBits(SubSeq(b, 1, Len(b) - LimbBits), t, sum \div 2^LimbBits)
                \o LowBits(sum, LimbBits)

\* t * x for an integer t and a number x: the correctly rounded product
Multiply(t, x) ==
    IF t = 0 \/ IsZeroNumber(x) THEN ZeroNumber
    ELSE LET r == RoundBits(MulBits(x.mant, Abs(t), 0), FALSE)
         IN [neg |-> (t < 0) # x.neg, mant |-> r.mant, exp |-> x.exp + r.shift]

\* x < y for numbers that are not negative
BitsLess(a, b) ==
    \E i \in 1..Len(a) : a[i] < b[i] /\ \A j \in 1..(i - 1) : a[j] = b[j]

NumberLess(x, y) ==
    IF IsZeroNumber(y) THEN FALSE
    ELSE IF IsZeroNumber(x) THEN TRUE
    ELSE x.exp < y.exp \/ (x.exp = y.exp /\ BitsLess(x.mant, y.mant))

----------------------------------------------------------------------------
(* getLinearTargetProgress(target), part_001 lines 66-68 *)

\* Array.from({ length: 12 }, (_, i) => target * ((i + 1) / 12)); element i1 is i = i1 - 1
getLinearTargetProgress(target) ==
    [i1 \in 1..MonthsPerYear |-> Multiply(target, Divide((i1 - 1) + 1, MonthsPerYear))]

----------------------------------------------------------------------------
(* The category charts of the monthly dashboard, part_001 lines 134-146 and 370-413 *)

\* categories.filter(cat => cat.toLowerCase() !== "income")
expenseCategories(cats) == SelectSeq(cats, LAMBDA c : toLowerCase(c) # INCOME)

\* targets[cat] || 0
TargetOf(tg, cat) == IF cat \in DOMAIN tg /\ tg[cat] # 0 THEN tg[cat] ELSE 0

\* lines 391-412: the datasets of the chart of one category
CategoryDatasets(cat, cumulative, tg) ==
    LET target == TargetOf(tg, cat)
        targetLine == getLinearTargetProgress(target)
    IN <<[label |-> "YTD", data |-> cumulative]>>   \* label: `${cat} (YTD)`
       \o (IF target > 0
           THEN <<[label |-> "Target Progress", data |-> targetLine]>>
           ELSE <<>>)

\* inputs: category lists, yearly targets, and transactions of this and the last year
ChartCategoryLists == {<<INCOME, FOOD, OTHER_CAT>>, <<FOOD>>}

TargetValues == {-12, 0, 108, 1200}

TargetMaps(K) == UNION {[D -> TargetValues] : D \in SUBSET K}

ChartExpenseRecords ==
    [date : {[y |-> 2024, mo |-> 6, day |-> 1], [y |-> 2025, mo |-> 2, day |-> 1]},
     description : {<<"r">>},
     amount : {-5},
     category : {FOOD, OTHER_CAT}]

\* App renders the dashboard only when expenses.length > 0
InitChart ==
    /\ categories \in ChartCategoryLists
    /\ expenses \in SeqsUpTo(ChartExpenseRecords, MaxTx) \ {<<>>}
    /\ targets \in TargetMaps(Range(categories))
    /\ patterns = <<>>
    /\ desc = EMPTY
    /\ amount = 0
    /\ call = "none"
    /\ result = EMPTY
    /\ category = EMPTY
    /\ kind = "none"
    /\ year = 0
    /\ m = 0
    /\ cumSum = 0
    /\ cum = <<>>
    /\ hasData = <<>>
    /\ started = FALSE
    /\ remarks = NoMap
    /\ error = "null"
    /\ editOpen = FALSE
    /\ targetsDraft = NoMap
    /\ remarksDraft = NoMap
    /\ pending = {}
    /\ ctx = NoCtx
    /\ rows = <<>>

\* lines 370-371: the chart of one expense category enters the per-month builder
RenderCategoryChart ==
    /\ call = "none"
    /\ \E i \in 1..Len(expenseCategories(categories)), y \in ThisYears :
          /\ category' = expenseCategories(categories)[i]
          /\ year' = y
    /\ call' = "perMonth"
    /\ m' = 0
    /\ cumSum' = 0
    /\ cum' = <<>>
    /\ hasData' = <<>>
    /\ started' = FALSE
    /\ UNCHANGED <<classifierVars, result, expenses, kind, appVars, ctx, rows>>

\* lines 372-412: the builder has returned and the datasets are put together
ChartDatasets ==
    /\ call = "perMonth"
    /\ m = MonthsPerYear
    /\ call' = "chart"
    /\ result' = CategoryDatasets(category, cum, targets)
    /\ UNCHANGED <<classifierVars, seriesVars, appVars, ctx, rows>>

NextMonthlyChart == RenderCategoryChart \/ PerMonthStep \/ ChartDatasets

SpecMonthlyChart == InitChart /\ [][NextMonthlyChart]_vars

----------------------------------------------------------------------------
(* getSegmentBorderDash(hasData), part_001 lines 110-127 *)

\* the return values: undefined (the line stays solid) and the dash pattern [2, 6]
Undefined == [defined |-> FALSE, dash |-> <<>>]
Dashed == [defined |-> TRUE, dash |-> <<2, 6>>]

\* hasData[idx] of a 0-based index, undefined (falsy) outside the array
HasDataAt(arr, idx) == IF idx + 1 \in DOMAIN arr THEN arr[idx + 1] ELSE FALSE

\* the callback with the first test relaxed to either endpoint having data
SegmentBorderDashEither(arr, c) ==
    LET idx0 == c.p0DataIndex
        idx1 == c.p1DataIndex
    IN IF idx1 - idx0 = 1
       THEN IF HasDataAt(arr, idx0) \/ HasDataAt(arr, idx1) THEN Undefined ELSE Dashed
       ELSE IF idx1 - idx0 > 1 THEN Dashed
       ELSE Undefined

\* lines 111-126: the callback getSegmentBorderDash(arr) applied to the context c
getSegmentBorderDash(arr, c) ==
    LET idx0 == c.p0DataIndex
        idx1 == c.p1DataIndex
    IN IF idx1 - idx0 = 1
       THEN IF HasDataAt(arr, idx0) /\ HasDataAt(arr, idx1) THEN Undefined
            ELSE IF ~HasDataAt(arr, idx0) /\ ~HasDataAt(arr, idx1) THEN Dashed
            ELSE Dashed
       ELSE IF idx1 - idx0 > 1 THEN Dashed
       ELSE Undefined

\* the hasData arrays the monthly builders return: one flag per month
HasDataArrays == [1..MonthsPerYear -> BOOLEAN]

\* the segments of a twelve-point line: p0 before p1, adjacent or one point apart
SegmentContexts ==
    {c \in [p0DataIndex : 0..(MonthsPerYear - 1), p1DataIndex : 0..(MonthsPerYear - 1)] :
        c.p1DataIndex - c.p0DataIndex \in {1, 2}}

InitSegment ==
    /\ hasData \in HasDataArrays
    /\ ctx \in SegmentContexts
    /\ rows = <<>>
    /\ categories = <<>>
    /\ patterns = <<>>
    /\ desc = EMPTY
    /\ amount = 0
    /\ call = "none"
    /\ result = Undefined
    /\ expenses = <<>>
    /\ category = EMPTY
    /\ kind = "none"
    /\ year = 0
    /\ m = 0
    /\ cumSum = 0
    /\ cum = <<>>
    /\ started = FALSE
    /\ AppStateInitial

\* Chart.js evaluates segment.borderDash for the segment ctx
SegmentBorderDash ==
    /\ call = "none"
    /\ call' = "dash"
    /\ result' = getSegmentBorderDash(hasData, ctx)
    /\ UNCHANGED <<classifierVars, seriesVars, appVars, ctx, rows>>

NextSegment == SegmentBorderDash

SpecSegment == InitSegment /\ [][NextSegment]_vars

----------------------------------------------------------------------------
(* The category charts of the per-transaction dashboard,                     *)
(* ExpenseDashboard.tsx lines 26-40, 95-102 and 353-402                      *)

GROCERIES == <<"G", "r", "o", "c", "e", "r", "i", "e", "s">>

\* three of the thirteen names of the fixed category list, lines 26-40
DashboardCategories == <<INCOME, GROCERIES, OTHER_CAT>>

\* line 102: categories.filter(cat => cat !== "income")
DashboardExpenseCategories == SelectSeq(DashboardCategories, LAMBDA c : c # INCOME)

\* lines 385-393: the data of the "Target" dataset
TwoPointTargetLine(points, target) ==
    IF Len(points) > 0
    THEN <<[x |-> points[1].x, y |-> 0], [x |-> points[Len(points)].x, y |-> target]>>
    ELSE <<>>

\* lines 354-402: the datasets of the chart of one category
PointsDatasets(exps, cat, tg) ==
    LET points == getCumulativePoints(SelectSeq(exps, LAMBDA e : e.category = cat), cat)
        target == TargetOf(tg, cat)
    IN <<[label |-> "Category", data |-> points]>>   \* label: `${cat}`
       \o (IF target > 0
           THEN <<[label |-> "Target", data |-> TwoPointTargetLine(points, target)]>>
           ELSE <<>>)

PointsExpenseRecords ==
    [date : {[y |-> 2025, mo |-> 0, day |-> 5],
             [y |-> 2025, mo |-> 1, day |-> 10],
             [y |-> 2025, mo |-> 2, day |-> 1]},
     description : {<<"r">>},
     amount : {-5},
     category : {GROCERIES, OTHER_CAT}]

\* App renders the dashboard only when expenses.length > 0
InitPointsChart ==
    /\ expenses \in SeqsUpTo(PointsExpenseRecords, MaxTx) \ {<<>>}
    /\ targets \in TargetMaps(Range(DashboardExpenseCategories))
    /\ categories = DashboardCategories
    /\ patterns = <<>>
    /\ desc = EMPTY
    /\ amount = 0
    /\ call = "none"
    /\ result = EMPTY
    /\ category = EMPTY
    /\ kind = "none"
    /\ year = 0
    /\ m = 0
    /\ cumSum = 0
    /\ cum = <<>>
    /\ hasData = <<>>
    /\ started = FALSE
    /\ remarks = NoMap
    /\ error = "null"
    /\ editOpen = FALSE
    /\ targetsDraft = NoMap
    /\ remarksDraft = NoMap
    /\ pending = {}
    /\ ctx = NoCtx
    /\ rows = <<>>

\* lines 353-402: the chart of one expense category is rendered
RenderPointsChart ==
    /\ call = "none"
    /\ \E i \in 1..Len(DashboardExpenseCategories) :
          /\ category' = DashboardExpenseCategories[i]
          /\ result' = PointsDatasets(expenses, DashboardExpenseCategories[i], targets)
    /\ call' = "pointsChart"
    /\ UNCHANGED <<classifierVars, expenses, kind, year, m, cumSum, cum, hasData, started,
                   appVars, ctx, rows>>

NextPointsChart == RenderPointsChart

SpecPointsChart == InitPointsChart /\ [][NextPointsChart]_vars

----------------------------------------------------------------------------
(* Three transactions of one year classified by the amount-aware            *)
(* categorizeExpense and summed by the monthly builders                     *)

REWE_MARKT == <<"R", "E", "W", "E", " ", "M", "a", "r", "k", "t">>
SALARY == <<"S", "a", "l", "a", "r", "y">>
REWE_PATTERN == <<"r", "e", "w", "e">>

ScenarioCategories == <<INCOME, GROCERIES, OTHER_CAT>>

ScenarioPatterns == (GROCERIES :> <<REWE_PATTERN>>)

ScenarioYears == {2024, 2025}

\* amounts in cents: -42.50, 2500 and -30
ScenarioRows(y) ==
    {[date |-> [y |-> y, mo |-> 0, day |-> 5], description |-> REWE_MARKT, amount |-> -4250],
     [date |-> [y |-> y, mo |-> 1, day |-> 10], description |-> SALARY, amount |-> 250000],
     [date |-> [y |-> y, mo |-> 2, day |-> 1], description |-> REWE_MARKT, amount |-> -3000]}

\* the rows of the file in any order
ScenarioFiles ==
    UNION {{f \in [1..3 -> ScenarioRows(y)] : Range(f) = ScenarioRows(y)} : y \in ScenarioYears}

InitScenario ==
    /\ rows \in ScenarioFiles
    /\ categories = ScenarioCategories
    /\ patterns = ScenarioPatterns
    /\ desc = EMPTY
    /\ amount = 0
    /\ call = "none"
    /\ result = EMPTY
    /\ expenses = <<>>
    /\ category = EMPTY
    /\ kind = "none"
    /\ year = 0
    /\ m = 0
    /\ cumSum = 0
    /\ cum = <<>>
    /\ hasData = <<>>
    /\ started = FALSE
    /\ AppStateInitial
    /\ ctx = NoCtx

\* the next row is classified and stored as an Expense (types.ts lines 1-6)
ClassifyRow ==
    /\ call = "none"
    /\ Len(expenses) < Len(rows)
    /\ LET row == rows[Len(expenses) + 1]
       IN /\ desc' = row.description
          /\ amount' = row.amount
          /\ result' = categorizeExpenseAmountAware(row.description, row.amount,
                                                    patterns, categories)
          /\ expenses' = Append(expenses,
                 [date |-> row.date, description |-> row.description, amount |-> row.amount,
                  category |-> categorizeExpenseAmountAware(row.description, row.amount,
                                                            patterns, categories)])
    /\ UNCHANGED <<categories, patterns, call, category, kind, year, m, cumSum, cum,
                   hasData, started, appVars, ctx, rows>>

\* thisYear, the year of the transactions
ScenarioYear == rows[1].date.y

\* getCumulativePerMonthAndDataMonths(expenses, cat, thisYear) is entered
ScenarioPerMonth ==
    /\ call = "none"
    /\ Len(expenses) = Len(rows)
    /\ \E i \in 1..Len(categories) : category' = categories[i]
    /\ year' = ScenarioYear
    /\ call' = "perMonth"
    /\ m' = 0
    /\ cumSum' = 0
    /\ cum' = <<>>
    /\ hasData' = <<>>
    /\ started' = FALSE
    /\ UNCHANGED <<classifierVars, result, expenses, kind, appVars, ctx, rows>>

\* getCumulativeTotalAndDataMonths(expenses, kind, thisYear, categories) is entered
ScenarioTotal ==
    /\ call = "none"
    /\ Len(expenses) = Len(rows)
    /\ \E k \in {"expenses", "income"} : kind' = k
    /\ year' = ScenarioYear
    /\ call' = "total"
    /\ m' = 0
    /\ cumSum' = 0
    /\ cum' = <<>>
    /\ hasData' = <<>>
    /\ started' = FALSE
    /\ UNCHANGED <<classifierVars, result, expenses, category, appVars, ctx, rows>>

NextScenario ==
    ClassifyRow \/ ScenarioPerMonth \/ PerMonthStep \/ ScenarioTotal \/ TotalStep

SpecScenario == InitScenario /\ [][NextScenario]_vars

----------------------------------------------------------------------------
(* App.tsx: spreadsheet cells and their conversions *)

\* a cell of a sheet row: undefined (empty), a string or a number
UndefinedCell == [t |-> "undefined", s |-> <<>>, n |-> 0]
TextCell(str) == [t |-> "string", s |-> str, n |-> 0]
NumberCell(num) == [t |-> "number", s |-> <<>>, n |-> num]

\* the truthiness of a cell: undefined, "" and 0 are falsy
CellTruthy(c) ==
    CASE c.t = "undefined" -> FALSE
      [] c.t = "string" -> c.s # <<>>
      [] OTHER -> c.n # 0

DigitOf(c) ==
    CASE c = "0" -> 0 [] c = "1" -> 1 [] c = "2" -> 2 [] c = "3" -> 3 [] c = "4" -> 4
      [] c = "5" -> 5 [] c = "6" -> 6 [] c = "7" -> 7 [] c = "8" -> 8 [] c = "9" -> 9
      [] OTHER -> -1

DigitChar(d) == <<"0", "1", "2", "3", "4", "5", "6", "7", "8", "9">>[d + 1]

IsDigits(str) == str # <<>> /\ \A i \in 1..Len(str) : DigitOf(str[i]) >= 0

RECURSIVE DigitsValue(_)
DigitsValue(str) ==
    IF str = <<>> THEN 0
    ELSE 10 * DigitsValue(SubSeq(str, 1, Len(str) - 1)) + DigitOf(str[Len(str)])

RECURSIVE DigitsOf(_)
DigitsOf(num) ==
    IF num < 10 THEN <<DigitChar(num)>>
    ELSE Append(DigitsOf(num \div 10), DigitChar(num % 10))

\* String(cell), for undefined, strings and integers
StringOfCell(c) ==
    CASE c.t = "undefined" -> <<"u", "n", "d", "e", "f", "i", "n", "e", "d">>
      [] c.t = "string" -> c.s
      [] OTHER -> IF c.n < 0 THEN <<"-">> \o DigitsOf(-c.n) ELSE DigitsOf(c.n)

\* a JavaScript number that is an integer, or NaN
NaN == [nan |-> TRUE, v |-> 0]
Num(val) == [nan |-> FALSE, v |-> val]

\* Number(str) for the empty string, integers with an optional sign, and other text
StringToNumber(str) ==
    LET t == trim(str)
    IN IF t = <<>> THEN Num(0)
       ELSE IF IsDigits(t) THEN Num(DigitsValue(t))
       ELSE IF t[1] = "-" /\ IsDigits(Tail(t)) THEN Num(-DigitsValue(Tail(t)))
       ELSE NaN

\* Number(cell)
NumberOfCell(c) ==
    CASE c.t = "undefined" -> NaN
      [] c.t = "string" -> StringToNumber(c.s)
      [] OTHER -> Num(c.n)

\* x || 0 for a number x
OrZero(x) == IF x.nan \/ x.v = 0 THEN 0 ELSE x.v

\* str.split(",")
RECURSIVE SplitComma(_)
SplitComma(str) ==
    LET commas == {i \in 1..Len(str) : str[i] = ","}
    IN IF commas = {} THEN <<str>>
       ELSE LET first == CHOOSE i \in commas : \A j \in commas : i <= j
            IN <<SubSeq(str, 1, first - 1)>> \o SplitComma(SubSeq(str, first + 1, Len(str)))

\* obj[key] = value on a copy of obj
Put(obj, key, value) ==
    [x \in (DOMAIN obj) \cup {key} |-> IF x = key THEN value ELSE obj[x]]

----------------------------------------------------------------------------
(* App.tsx handleTemplateImport, lines 85-139: the template file *)

\* the result of the parse: the new configuration, or the message thrown
TemplateThrows(msg) ==
    [ok |-> FALSE, message |-> msg, categories |-> <<>>, targets |-> NoMap,
     remarks |-> NoMap, patterns |-> NoMap]

\* lines 113-127: the rows from position i on, added to the configuration acc
RECURSIVE TemplateRows(_, _, _)
TemplateRows(sheetRows, i, acc) ==
    IF i > Len(sheetRows) THEN acc
    ELSE LET row == sheetRows[i]
             categoryName == StringOfCell(row.category)
             target == OrZero(NumberOfCell(row.target))
             remark == IF CellTruthy(row.remark) THEN StringOfCell(row.remark) ELSE <<>>
             patternStr == IF CellTruthy(row.patterns) THEN StringOfCell(row.patterns) ELSE <<>>
             parts == SplitComma(patternStr)
             patternList == SelectSeq([j \in 1..Len(parts) |-> trim(parts[j])], Truthy)
         IN IF ~Truthy(categoryName) THEN TemplateRows(sheetRows, i + 1, acc)
            ELSE IF ~Truthy(trim(patternStr)) THEN TemplateThrows("Pattern column is mandatory")
            ELSE IF Len(patternList) = 0 THEN TemplateThrows("At least one pattern required")
            ELSE TemplateRows(sheetRows, i + 1,
                     [ok |-> TRUE, message |-> "null",
                      categories |-> Append(acc.categories, categoryName),
                      targets |-> Put(acc.targets, categoryName, target),
                      remarks |-> Put(acc.remarks, categoryName, remark),
                      patterns |-> Put(acc.patterns, categoryName, patternList)])

\* lines 92-127. header: "none" for a sheet without rows, "missing" when one of
\* the four columns is not found in the first row, "ok" otherwise
ParseTemplate(file) ==
    IF file.header = "none" THEN TemplateThrows("Template file is empty")
    ELSE IF file.header = "missing" THEN TemplateThrows("Template must have columns")
    ELSE TemplateRows(file.rows, 1,
             [ok |-> TRUE, message |-> "null", categories |-> <<>>, targets |-> NoMap,
              remarks |-> NoMap, patterns |-> NoMap])

\* the template files the user picks, with the rows of their sheets
TemplateFiles ==
    LET RowFood ==
            [category |-> TextCell(FOOD), target |-> NumberCell(10), remark |-> UndefinedCell,
             patterns |-> TextCell(<<"r">>)]
        RowFoodAgain ==
            [category |-> TextCell(FOOD), target |-> TextCell(<<"7">>), remark |-> TextCell(<<"a">>),
             patterns |-> TextCell(<<"e">>)]
        RowOther ==
            [category |-> TextCell(OTHER_CAT), target |-> NumberCell(-5), remark |-> TextCell(<<"a">>),
             patterns |-> TextCell(<<" ", "e", ",">>)]
        RowIncomeCap ==
            [category |-> TextCell(INCOME_CAP), target |-> NumberCell(10), remark |-> UndefinedCell,
             patterns |-> TextCell(<<"r">>)]
        RowIncome ==
            [category |-> TextCell(INCOME), target |-> TextCell(<<"x">>), remark |-> TextCell(<<"a">>),
             patterns |-> TextCell(<<"e">>)]
        RowNoCategory ==
            [category |-> TextCell(<<>>), target |-> NumberCell(10), remark |-> UndefinedCell,
             patterns |-> TextCell(<<"r">>)]
        RowNoPattern ==
            [category |-> TextCell(FOOD), target |-> NumberCell(10), remark |-> UndefinedCell,
             patterns |-> UndefinedCell]
        RowCommaPattern ==
            [category |-> TextCell(OTHER_CAT), target |-> NumberCell(10), remark |-> UndefinedCell,
             patterns |-> TextCell(<<",">>)]
    IN {[header |-> "none", rows |-> <<>>],
        [header |-> "missing", rows |-> <<RowFood>>],
        [header |-> "ok", rows |-> <<>>],
        [header |-> "ok", rows |-> <<RowFood>>],
        [header |-> "ok", rows |-> <<RowOther>>],
        [header |-> "ok", rows |-> <<RowIncomeCap, RowFood>>],
        [header |-> "ok", rows |-> <<RowOther, RowIncome>>],
        [header |-> "ok", rows |-> <<RowNoCategory, RowFood, RowFoodAgain>>],
        [header |-> "ok", rows |-> <<RowFood, RowNoPattern>>],
        [header |-> "ok", rows |-> <<RowCommaPattern>>]}

----------------------------------------------------------------------------
(* App.tsx handleFile, lines 32-82: the expense file *)

\* excelDateToJSDate (lines 13-16): the day serial days after 30 Dec 1899, as
\* a calendar date; 30 Dec 1899 is day -25569 of the epoch 1 Jan 1970
excelDateToJSDate(serial) ==
    LET z == (serial - 25569) + 719468
        era == z \div 146097
        doe == z - era * 146097
        yoe == (doe - doe \div 1460 + doe \div 36524 - doe \div 146096) \div 365
        doy == doe - (365 * yoe + yoe \div 4 - yoe \div 100)
        mp == (5 * doy + 2) \div 153
        d == doy - (153 * mp + 2) \div 5 + 1
        mm == IF mp < 10 THEN mp + 3 ELSE mp - 9
        yy == yoe + era * 400 + (IF mm <= 2 THEN 1 ELSE 0)
    IN [y |-> yy, mo |-> mm - 1, day |-> d]

\* parseFloat(str) for the empty string, integers with an optional sign, and other text
ParseFloat(str) == IF trim(str) = <<>> THEN NaN ELSE StringToNumber(str)

ExpenseThrows(msg) == [ok |-> FALSE, message |-> msg, expenses |-> <<>>]

\* the rows classified by the amount-aware categorizeExpense
RECURSIVE ExpenseRowsAmountAware(_, _, _, _, _)
ExpenseRowsAmountAware(sheetRows, i, pats, cats, acc) ==
    IF i > Len(sheetRows) THEN acc
    ELSE LET row == sheetRows[i]
             description == StringOfCell(row.description)
             amt == ParseFloat(StringOfCell(row.amount))
         IN IF ~CellTruthy(row.date) \/ ~CellTruthy(row.description) \/ ~CellTruthy(row.amount)
                   \/ amt.nan
            THEN ExpenseRowsAmountAware(sheetRows, i + 1, pats, cats, acc)
            ELSE ExpenseRowsAmountAware(sheetRows, i + 1, pats, cats,
                     Append(acc, [date |-> excelDateToJSDate(row.date.n),
                                  description |-> description,
                                  amount |-> amt.v,
                                  category |-> categorizeExpenseAmountAware(description, amt.v,
                                                                            pats, cats)]))

\* lines 60-76: the rows from position i on, classified with the categories
\* and patterns of the render the handler was created in
RECURSIVE ExpenseRows(_, _, _, _, _)
ExpenseRows(sheetRows, i, pats, cats, acc) ==
    IF i > Len(sheetRows) THEN acc
    ELSE LET row == sheetRows[i]
             description == StringOfCell(row.description)
             amt == ParseFloat(StringOfCell(row.amount))
         IN IF ~CellTruthy(row.date) \/ ~CellTruthy(row.description) \/ ~CellTruthy(row.amount)
            THEN ExpenseRows(sheetRows, i + 1, pats, cats, acc)
            ELSE IF amt.nan THEN ExpenseRows(sheetRows, i + 1, pats, cats, acc)
            ELSE ExpenseRows(sheetRows, i + 1, pats, cats,
                     Append(acc, [date |-> excelDateToJSDate(row.date.n),
                                  description |-> description,
                                  amount |-> amt.v,
                                  category |-> categorizeExpensePatternOnly(description, pats, cats)]))

\* lines 45-77 for one file. header: "none" for a sheet without rows, "missing"
\* when one of the three columns is not found, "ok" otherwise
ReadExpenseFile(file, pats, cats) ==
    IF file.header = "none" THEN [ok |-> TRUE, message |-> "null", expenses |-> <<>>]
    ELSE IF file.header = "missing" THEN ExpenseThrows("Excel sheet must have columns")
    ELSE [ok |-> TRUE, message |-> "null",
          expenses |-> ExpenseRows(file.rows, 1, pats, cats, <<>>)]

\* the expense files the user picks, with the rows of their sheets (no row
\* twice in a sheet); 45689 is the serial of 1 Feb 2025
ExpenseFiles ==
    LET SheetRowR ==
            [date |-> NumberCell(45689), description |-> TextCell(<<"r">>), amount |-> NumberCell(-5)]
        SheetRowE ==
            [date |-> NumberCell(45689), description |-> TextCell(<<"e">>),
             amount |-> TextCell(<<"-", "5">>)]
        SheetRowCredit ==
            [date |-> NumberCell(45689), description |-> TextCell(<<"r">>), amount |-> NumberCell(5)]
        SheetRowBlank ==
            [date |-> NumberCell(45689), description |-> UndefinedCell, amount |-> NumberCell(-5)]
    IN {[header |-> "none", rows |-> <<>>],
        [header |-> "missing", rows |-> <<SheetRowR>>],
        [header |-> "ok", rows |-> <<SheetRowBlank, SheetRowR>>]}
       \cup {[header |-> "ok", rows |-> r] :
                r \in {q \in SeqsUpTo({SheetRowR, SheetRowE, SheetRowCredit}, MaxTx) :
                           \A i, j \in 1..Len(q) : q[i] = q[j] => i = j}}

\* the selections of the file input (multiple): no file, one file, or two
\* files of which the first is a sheet without rows or a sheet with one row
\* and the second a sheet with one row or a sheet without the columns
ExpenseFileLists ==
    LET oneRow == {f \in ExpenseFiles :
                      /\ f.header = "ok"
                      /\ Len(f.rows) = 1
                      /\ f.rows[1].description = TextCell(<<"r">>)}
        firsts == {f \in ExpenseFiles : f.header = "none"}
                      \cup {f \in oneRow : f.rows[1].amount = NumberCell(-5)}
        seconds == {f \in ExpenseFiles : f.header = "missing"}
                      \cup {f \in oneRow : f.rows[1].amount = NumberCell(5)}
    IN {<<>>} \cup {<<f>> : f \in ExpenseFiles} \cup {<<f, g>> : f \in firsts, g \in seconds}

----------------------------------------------------------------------------
(* App.tsx: the handlers.  handleFile and handleTemplateImport suspend on    *)
(* await file.arrayBuffer(), handleFile once for each file; the model keeps  *)
(* at most one suspended invocation of each.  The file chooser of the        *)
(* Import Excel button stays open while other handlers run.                  *)

NoFile == [header |-> "none", rows |-> <<>>]

Suspended(h) == {inv \in pending : inv.handler = h}

InitApp ==
    /\ categories = <<>>
    /\ patterns = NoMap
    /\ expenses = <<>>
    /\ AppStateInitial
    /\ desc = EMPTY
    /\ amount = 0
    /\ call = "none"
    /\ result = EMPTY
    /\ category = EMPTY
    /\ kind = "none"
    /\ year = 0
    /\ m = 0
    /\ cumSum = 0
    /\ cum = <<>>
    /\ hasData = <<>>
    /\ started = FALSE
    /\ ctx = NoCtx
    /\ rows = <<>>

dashboardVars == <<desc, amount, call, result, category, kind, year, m, cumSum, cum,
                   hasData, started, ctx, rows>>

\* lines 85-91: up to the await; no file input is used while the file chooser
\* of the other one is open
HandleTemplateImportStart ==
    /\ Suspended("handleTemplateImport") = {}
    /\ Suspended("fileChooser") = {}
    /\ error' = "null"
    /\ \E files \in SeqsUpTo(TemplateFiles, 1) :
          IF files = <<>> THEN pending' = pending
          ELSE pending' = pending \cup
                   {[handler |-> "handleTemplateImport", templateFile |-> files[1],
                     expenseFiles |-> <<>>, allExpenses |-> <<>>, categories |-> <<>>,
                     patterns |-> NoMap]}
    /\ UNCHANGED <<categories, patterns, expenses, targets, remarks, editOpen,
                   targetsDraft, remarksDraft, dashboardVars>>

\* the continuation that leaves the stored expenses alone
HandleTemplateImportResumeKeepExpenses ==
    \E inv \in Suspended("handleTemplateImport") :
        LET parsed == ParseTemplate(inv.templateFile)
        IN /\ pending' = pending \ {inv}
           /\ IF parsed.ok
              THEN /\ categories' = parsed.categories
                   /\ targets' = parsed.targets
                   /\ remarks' = parsed.remarks
                   /\ patterns' = parsed.patterns
                   /\ targetsDraft' = parsed.targets
                   /\ remarksDraft' = parsed.remarks
                   /\ UNCHANGED <<error, expenses>>
              ELSE /\ error' = parsed.message
                   /\ UNCHANGED <<categories, targets, remarks, patterns, targetsDraft,
                                  remarksDraft, expenses>>
           /\ UNCHANGED <<editOpen, dashboardVars>>

\* the continuation that clears the expenses before it reads the sheet
HandleTemplateImportResumeClearFirst ==
    \E inv \in Suspended("handleTemplateImport") :
        LET parsed == ParseTemplate(inv.templateFile)
        IN /\ pending' = pending \ {inv}
           /\ expenses' = <<>>
           /\ IF parsed.ok
              THEN /\ categories' = parsed.categories
                   /\ targets' = parsed.targets
                   /\ remarks' = parsed.remarks
                   /\ patterns' = parsed.patterns
                   /\ targetsDraft' = parsed.targets
                   /\ remarksDraft' = parsed.remarks
                   /\ UNCHANGED error
              ELSE /\ error' = parsed.message
                   /\ UNCHANGED <<categories, targets, remarks, patterns, targetsDraft,
                                  remarksDraft>>
           /\ UNCHANGED <<editOpen, dashboardVars>>

\* lines 92-138: after the await
HandleTemplateImportResume ==
    \E inv \in Suspended("handleTemplateImport") :
        LET parsed == ParseTemplate(inv.templateFile)
        IN /\ pending' = pending \ {inv}
           /\ IF parsed.ok
              THEN /\ categories' = parsed.categories
                   /\ targets' = parsed.targets
                   /\ remarks' = parsed.remarks
                   /\ patterns' = parsed.patterns
                   /\ targetsDraft' = parsed.targets
                   /\ remarksDraft' = parsed.remarks
                   /\ expenses' = <<>>
                   /\ UNCHANGED error
              ELSE /\ error' = parsed.message
                   /\ UNCHANGED <<categories, targets, remarks, patterns, targetsDraft,
                                  remarksDraft, expenses>>
           /\ UNCHANGED <<editOpen, dashboardVars>>

\* the file chooser of the Import Excel button
FileChooser ==
    [handler |-> "fileChooser", templateFile |-> NoFile, expenseFiles |-> <<>>,
     allExpenses |-> <<>>, categories |-> <<>>, patterns |-> NoMap]

\* lines 172-174: a click on the Import Excel button, which is disabled while
\* there are no categories, opens the file chooser
OpenFileChooser ==
    /\ categories # <<>>
    /\ FileChooser \notin pending
    /\ pending' = pending \cup {FileChooser}
    /\ UNCHANGED <<categories, patterns, expenses, targets, remarks, error, editOpen,
                   targetsDraft, remarksDraft, dashboardVars>>

\* lines 32-44: onChange of the file input, up to the first await, in the
\* handler of the latest render
HandleFileStart ==
    /\ FileChooser \in pending
    /\ Suspended("handleFile") = {}
    /\ IF Len(categories) = 0
       THEN /\ error' = "Please import the category/target template first!"
            /\ pending' = pending \ {FileChooser}
       ELSE /\ error' = "null"
            /\ \E files \in ExpenseFileLists :
                  IF Len(files) = 0 THEN pending' = pending \ {FileChooser}
                  ELSE pending' = (pending \ {FileChooser}) \cup
                           {[handler |-> "handleFile", templateFile |-> NoFile,
                             expenseFiles |-> files, allExpenses |-> <<>>,
                             categories |-> categories, patterns |-> patterns]}
    /\ UNCHANGED <<categories, patterns, expenses, targets, remarks, editOpen,
                   targetsDraft, remarksDraft, dashboardVars>>

\* the continuation that stores the rows read so far when a file is rejected
HandleFileResumeStorePartial ==
    \E inv \in Suspended("handleFile") :
        LET read == ReadExpenseFile(Head(inv.expenseFiles), inv.patterns, inv.categories)
            allExpenses == inv.allExpenses \o read.expenses
        IN /\ IF ~read.ok
              THEN /\ error' = read.message
                   /\ pending' = pending \ {inv}
                   /\ expenses' = inv.allExpenses
              ELSE IF Len(inv.expenseFiles) > 1
              THEN /\ pending' = (pending \ {inv}) \cup
                           {[inv EXCEPT !.expenseFiles = Tail(@),
                                        !.allExpenses = allExpenses]}
                   /\ UNCHANGED <<error, expenses>>
              ELSE /\ expenses' = allExpenses
                   /\ pending' = pending \ {inv}
                   /\ UNCHANGED error
           /\ UNCHANGED <<categories, patterns, targets, remarks, editOpen, targetsDraft,
                          remarksDraft, dashboardVars>>

\* lines 45-81: after an await the next file is read, with the categories and
\* patterns of the render in which the handler was created; after the last
\* file the expenses are stored
HandleFileResume ==
    \E inv \in Suspended("handleFile") :
        LET read == ReadExpenseFile(Head(inv.expenseFiles), inv.patterns, inv.categories)
            allExpenses == inv.allExpenses \o read.expenses
        IN /\ IF ~read.ok
              THEN /\ error' = read.message
                   /\ pending' = pending \ {inv}
                   /\ UNCHANGED expenses
              ELSE IF Len(inv.expenseFiles) > 1
              THEN /\ pending' = (pending \ {inv}) \cup
                           {[inv EXCEPT !.expenseFiles = Tail(@),
                                        !.allExpenses = allExpenses]}
                   /\ UNCHANGED <<error, expenses>>
              ELSE /\ expenses' = allExpenses
                   /\ pending' = pending \ {inv}
                   /\ UNCHANGED error
           /\ UNCHANGED <<categories, patterns, targets, remarks, editOpen, targetsDraft,
                          remarksDraft, dashboardVars>>

\* an opening of the dialog that keeps the drafts of the last edit
handleEditTargetsKeepDrafts ==
    /\ categories # <<>>
    /\ editOpen' = TRUE
    /\ UNCHANGED <<categories, patterns, expenses, targets, remarks, error, pending,
                   targetsDraft, remarksDraft, dashboardVars>>

\* lines 142-146; the button is disabled while there are no categories (line 176)
handleEditTargets ==
    /\ categories # <<>>
    /\ targetsDraft' = targets
    /\ remarksDraft' = remarks
    /\ editOpen' = TRUE
    /\ UNCHANGED <<categories, patterns, expenses, targets, remarks, error, pending,
                   dashboardVars>>

\* the dialog leaving out only the category spelled "income"
DialogCategoriesCaseSensitive == SelectSeq(categories, LAMBDA c : c # INCOME)

\* line 188: the categories the dialog shows fields for
DialogCategories == SelectSeq(categories, LAMBDA c : toLowerCase(c) # INCOME)

\* what the user types into a number field and into a remark field
TargetInputs == {<<>>, <<"7">>, <<"-", "3">>}
RemarkInputs == {<<"b">>}

\* a change that stores the number under the lower-cased category name
TargetChangeLowerCased(cat, value) ==
    targetsDraft' = Put(targetsDraft, toLowerCase(cat), StringToNumber(value).v)

\* lines 147-152: [category]: Number(value)
TargetChange(cat, value) ==
    targetsDraft' = Put(targetsDraft, cat, StringToNumber(value).v)

\* lines 147-152 and 199: onChange of the target field of a category
handleTargetChange ==
    /\ editOpen
    /\ \E i \in 1..Len(DialogCategories), value \in TargetInputs :
          TargetChange(DialogCategories[i], value)
    /\ UNCHANGED <<categories, patterns, expenses, targets, remarks, error, editOpen,
                   remarksDraft, pending, dashboardVars>>

\* lines 153-158 and 208: onChange of the remark field of a category
handleRemarkChange ==
    /\ editOpen
    /\ \E i \in 1..Len(DialogCategories), value \in RemarkInputs :
          remarksDraft' = Put(remarksDraft, DialogCategories[i], value)
    /\ UNCHANGED <<categories, patterns, expenses, targets, remarks, error, editOpen,
                   targetsDraft, pending, dashboardVars>>

\* lines 159-163
handleSaveTargets ==
    /\ editOpen
    /\ targets' = targetsDraft
    /\ remarks' = remarksDraft
    /\ editOpen' = FALSE
    /\ UNCHANGED <<categories, patterns, expenses, error, targetsDraft, remarksDraft,
                   pending, dashboardVars>>

\* lines 184 and 216: onClose of the dialog and the Cancel button
CancelEdit ==
    /\ editOpen
    /\ editOpen' = FALSE
    /\ UNCHANGED <<categories, patterns, expenses, targets, remarks, error, targetsDraft,
                   remarksDraft, pending, dashboardVars>>

NextAppImports ==
    \/ HandleTemplateImportStart
    \/ HandleTemplateImportResume
    \/ OpenFileChooser
    \/ HandleFileStart
    \/ HandleFileResume

SpecAppImports == InitApp /\ [][NextAppImports]_vars

NextAppDialog ==
    \/ HandleTemplateImportStart
    \/ HandleTemplateImportResume
    \/ handleEditTargets
    \/ handleTargetChange
    \/ handleRemarkChange
    \/ handleSaveTargets
    \/ CancelEdit

SpecAppDialog == InitApp /\ [][NextAppDialog]_vars

----------------------------------------------------------------------------
(* The Overspend Evaluator.  Its code is not among the source files; it is   *)
(* modelled from section 4.3 of the specification, with exact arithmetic:    *)
(* averagePerMonth is the fraction abs(YTD total) / max(months, 1) and the   *)
(* factor 1.2 is 12/10.                                                      *)

OverspendCategories == <<FOOD, OTHER_CAT>>

\* the transactions of the year y, and those of its month mo
InYear(exps, y) == SelectSeq(exps, LAMBDA e : getFullYear(e.date) = y)

InMonth(exps, y, mo) == SelectSeq(InYear(exps, y), LAMBDA e : getMonth(e.date) = mo)

\* the total of the category cat among exps
CategoryTotal(exps, cat) ==
    LET own == SelectSeq(exps, LAMBDA e : e.category = cat)
    IN SumSeq([i \in 1..Len(own) |-> own[i].amount])

\* counts transactions instead of distinct months
monthsActiveByTransaction(exps, y) == Len(InYear(exps, y))

\* the count of distinct calendar months of the year y holding at least one
\* transaction of any category
monthsActiveThisYear(exps, y) ==
    Cardinality({getMonth(InYear(exps, y)[i].date) : i \in 1..Len(InYear(exps, y))})

\* flag(categoryTotalsYTD, monthsActiveThisYear, thisMonthTotals): the
\* categories with abs(thisMonthTotal) > averagePerMonth * 1.2, where
\* averagePerMonth = abs(YTD total) / max(monthsActiveThisYear, 1)
flag(categoryTotalsYTD, monthsActive, thisMonthTotals) ==
    LET months == IF monthsActive > 1 THEN monthsActive ELSE 1
    IN SelectSeq(OverspendCategories,
           LAMBDA c : Abs(thisMonthTotals[c]) * months * 10 > Abs(categoryTotalsYTD[c]) * 12)

OverspendRecords ==
    [date : {[y |-> 2025, mo |-> 0, day |-> 5],
             [y |-> 2025, mo |-> 1, day |-> 10],
             [y |-> 2024, mo |-> 1, day |-> 10]},
     description : {<<"r">>},
     amount : {-650, -550, -450, -350, 600},
     category : {FOOD, OTHER_CAT}]

\* the transactions, the current year and the current month
InitOverspend ==
    /\ expenses \in SeqsUpTo(OverspendRecords, MaxTx)
    /\ year \in ThisYears
    /\ m \in {0, 1}
    /\ categories = OverspendCategories
    /\ patterns = <<>>
    /\ desc = EMPTY
    /\ amount = 0
    /\ call = "none"
    /\ result = EMPTY
    /\ category = EMPTY
    /\ kind = "none"
    /\ cumSum = 0
    /\ cum = <<>>
    /\ hasData = <<>>
    /\ started = FALSE
    /\ AppStateInitial
    /\ ctx = NoCtx
    /\ rows = <<>>

\* the evaluator is run on the totals of the year and of the current month
EvaluateOverspend ==
    /\ call = "none"
    /\ result' = flag([c \in Range(OverspendCategories) |->
                           CategoryTotal(InYear(expenses, year), c)],
                      monthsActiveThisYear(expenses, year),
                      [c \in Range(OverspendCategories) |->
                           CategoryTotal(InMonth(expenses, year, m), c)])
    /\ call' = "overspend"
    /\ UNCHANGED <<classifierVars, expenses, category, kind, year, m, cumSum, cum, hasData,
                   started, appVars, ctx, rows>>

NextOverspend == EvaluateOverspend

SpecOverspend == InitOverspend /\ [][NextOverspend]_vars

----------------------------------------------------------------------------
(* Properties of the classifier *)

Called == call \in {"aware", "only"}

\* the call went through the pattern loop (the income short-circuit did not return)
LoopReached == call = "only" \/ (call = "aware" /\ ~ShortCircuit(amount, categories))

\* the categories the pattern loop of the call looks at
Eligible(i) == call = "only" \/ toLowerCase(categories[i]) # INCOME

\* pattern p matches the description under the match rule of the called variant
MatchesCalled(p) ==
    IF call = "aware" THEN PatternMatchesAware(toLowerCase(desc), p)
    ELSE PatternMatchesOnly(toLowerCase(desc), p)

\* positions of the eligible categories with at least one matching pattern
MatchingPositions ==
    {i \in 1..Len(categories) :
        /\ Eligible(i)
        /\ \E j \in 1..Len(PatsOf(patterns, categories[i])) :
               MatchesCalled(PatsOf(patterns, categories[i])[j])}

MinOf(S) == CHOOSE k \in S : \A n \in S : k <= n

\* C1: when the description matches patterns of two or more eligible categories,
\* the call returns the matching category that comes first in the category list
C1_PatternPriority ==
    (LoopReached /\ Cardinality({categories[i] : i \in MatchingPositions}) >= 2)
        => result = categories[MinOf(MatchingPositions)]

C1_Witness ==
    /\ call = "aware"
    /\ ~ShortCircuit(amount, categories)
    /\ Cardinality({categories[i] : i \in MatchingPositions}) >= 2
    /\ result = categories[1]

\* C2: with a category named "income" in any letter case and amount > 0 the
\* amount-aware call returns that income category
C2_IncomeShortCircuit ==
    (call = "aware" /\ amount > 0
        /\ \E i \in 1..Len(categories) : toLowerCase(categories[i]) = INCOME)
        => (toLowerCase(result) = INCOME /\ result \in Range(categories))

\* C3: when no pattern of an eligible category matches and the short-circuit does
\* not apply, the call returns "Other" if listed, else the first category, else ""
C3_Fallback ==
    (LoopReached /\ MatchingPositions = {})
        => result = (IF OTHER_CAT \in Range(categories) THEN OTHER_CAT
                     ELSE IF categories # <<>> THEN categories[1] ELSE EMPTY)

C3_Witness ==
    /\ call = "only"
    /\ MatchingPositions = {}
    /\ Len(categories) = 2
    /\ categories[2] = OTHER_CAT
    /\ categories[1] # OTHER_CAT
    /\ DOMAIN patterns # {}
    /\ result = OTHER_CAT

\* positions of the non-income categories with a pattern whose lowercased, trimmed
\* form is a substring of the lowercased description
TrimmedMatchPositions ==
    {i \in 1..Len(categories) :
        /\ toLowerCase(categories[i]) # INCOME
        /\ \E j \in 1..Len(PatsOf(patterns, categories[i])) :
               includes(toLowerCase(desc),
                        trim(toLowerCase(PatsOf(patterns, categories[i])[j])))}

\* no stored pattern is empty or whitespace only
NoBlankPattern ==
    \A c \in DOMAIN patterns : \A j \in 1..Len(patterns[c]) : trim(patterns[c][j]) # <<>>

\* C4: the amount-aware call decides by the rule "the lowercased description
\* contains the lowercased, whitespace-trimmed pattern" (stated for the pattern
\* maps without blank patterns)
C4_TrimmedMatchRule ==
    (call = "aware" /\ ~ShortCircuit(amount, categories) /\ NoBlankPattern)
        => result = (IF TrimmedMatchPositions # {}
                     THEN categories[MinOf(TrimmedMatchPositions)]
                     ELSE Fallback(categories))

\* C5: the returned value is a member of a non-empty category list, and the empty
\* string is returned only for the empty list
C5_ResultInCategories ==
    Called => /\ (categories # <<>> => result \in Range(categories))
              /\ (result = EMPTY => categories = <<>>)

C5_Witness ==
    /\ call = "aware"
    /\ amount > 0
    /\ INCOME_CAP \in Range(categories)
    /\ INCOME \notin Range(categories)
    /\ result \in Range(categories)

----------------------------------------------------------------------------
(* Properties of the series builders *)

MonthlyCall == call \in {"perMonth", "total"}

\* transaction e belongs to the series of the running monthly call
Qualifies(e) ==
    /\ getFullYear(e.date) = year
    /\ IF call = "perMonth" THEN e.category = category
       ELSE (kind = "income") <=> (toLowerCase(e.category) = INCOME)

\* the transactions of the series, in input order
Qualifying == SelectSeq(expenses, Qualifies)

\* the series of the running monthly call is an income series
IncomeSeries ==
    IF call = "perMonth" THEN toLowerCase(category) = INCOME ELSE kind = "income"

\* month sum of the transactions q in month k (0 = January) under the sign rule:
\* amount for an income series, abs(amount) for an expense series
MonthSumIn(q, income, k) ==
    SumSeq([i \in 1..Len(q) |->
               IF getMonth(q[i].date) # k THEN 0
               ELSE IF income THEN q[i].amount ELSE Abs(q[i].amount)])

HasTxAmong(q, k) == \E i \in 1..Len(q) : getMonth(q[i].date) = k

MonthSumOf(k) == MonthSumIn(Qualifying, IncomeSeries, k)

HasTxIn(k) == HasTxAmong(Qualifying, k)

Returned == MonthlyCall /\ m = MonthsPerYear

\* C6: the month-11 cumulative value of getCumulativePerMonthAndDataMonths is the
\* sum of abs(amount) (expense category) or of amount (income category) over the
\* transactions of that category and year; no other transaction contributes
C6_YearConservation ==
    (call = "perMonth" /\ Returned)
        => cum[MonthsPerYear] =
              SumSeq([i \in 1..Len(expenses) |->
                         IF /\ expenses[i].category = category
                            /\ getFullYear(expenses[i].date) = year
                         THEN (IF toLowerCase(category) = INCOME
                               THEN expenses[i].amount
                               ELSE Abs(expenses[i].amount))
                         ELSE 0])

C6_Witness ==
    /\ call = "perMonth"
    /\ Returned
    /\ category = FOOD
    /\ \E i \in 1..Len(expenses) : Qualifies(expenses[i]) /\ expenses[i].amount < 0
    /\ \E i \in 1..Len(expenses) :
           expenses[i].category = FOOD /\ getFullYear(expenses[i].date) # year
                /\ expenses[i].amount # 0
    /\ cum[MonthsPerYear] > 0

\* C7: started-state rule of the month loop.  Up to the first month with a nonzero
\* month sum every point is (0, false); from that month on the loop stays started,
\* cumulative[k] = cumulative[k-1] + monthSum(k) and hasData[k] tells whether month
\* k has a transaction of the series
C7_StartedRule ==
    MonthlyCall =>
        LET q == Qualifying
            income == IncomeSeries
            first == IF \E k \in 0..(m - 1) : MonthSumIn(q, income, k) # 0
                     THEN CHOOSE k \in 0..(m - 1) :
                              /\ MonthSumIn(q, income, k) # 0
                              /\ \A j \in 0..(k - 1) : MonthSumIn(q, income, j) = 0
                     ELSE m
        IN /\ Len(cum) = m
           /\ Len(hasData) = m
           /\ started = (first < m)
           /\ \A k \in 0..(m - 1) :
                 IF k < first
                 THEN cum[k + 1] = 0 /\ hasData[k + 1] = FALSE
                 ELSE /\ cum[k + 1] = (IF k = 0 THEN 0 ELSE cum[k]) + MonthSumIn(q, income, k)
                      /\ hasData[k + 1] = HasTxAmong(q, k)

C7_Witness ==
    /\ call = "perMonth"
    /\ Returned
    /\ started
    /\ \E k \in 0..(MonthsPerYear - 1) : HasTxIn(k) /\ ~hasData[k + 1]
    /\ \E k \in 0..(MonthsPerYear - 1) : hasData[k + 1]

\* the transactions of the category in the year all fall in months 6..11, with at
\* least one in month 6
OnlySecondHalf ==
    /\ \A i \in 1..Len(expenses) :
           Qualifies(expenses[i]) => getMonth(expenses[i].date) >= 6
    /\ HasTxIn(6)

GapThenStartAtSix ==
    /\ \A k \in 0..5 : cum[k + 1] = 0 /\ hasData[k + 1] = FALSE
    /\ hasData[7] = TRUE
    /\ cum[7] = MonthSumOf(6)

\* C8 as stated: a category whose transactions of the year all fall in months 6..11,
\* with at least one in month 6, reports (0, false) for months 0..5 and starts
\* accumulating at month 6 with hasData[6] = true
C8_GapAsStated ==
    (call = "perMonth" /\ Returned /\ OnlySecondHalf) => GapThenStartAtSix

\* C8 amended: the same, for a category whose month-6 sum is not zero
C8_NotStartedGap ==
    (call = "perMonth" /\ Returned /\ OnlySecondHalf /\ MonthSumOf(6) # 0)
        => GapThenStartAtSix

C8_Witness ==
    /\ call = "perMonth"
    /\ Returned
    /\ OnlySecondHalf
    /\ MonthSumOf(6) # 0
    /\ HasTxIn(11)
    /\ hasData[7] = TRUE
    /\ hasData[6] = FALSE

\* C9: in getCumulativePoints every transaction of an expense category raises the
\* running total by abs(amount), and every transaction of the income category
\* changes it by amount
C9_SignNormalization ==
    call = "points" =>
        \A i \in 1..Len(result) :
            LET delta == result[i].y - (IF i = 1 THEN 0 ELSE result[i - 1].y)
            IN /\ toLowerCase(category) # INCOME => delta = Abs(result[i].amount)
               /\ category = INCOME => delta = result[i].amount

\* C10: every month delta of getCumulativeTotalAndDataMonths is the sum of
\* abs(amount) over the non-income transactions of the month (kind expenses), or
\* the sum of amount over the income transactions of the month (kind income)
C10_CombinedSeries ==
    call = "total" =>
        LET counted == SelectSeq(expenses,
                           LAMBDA e : /\ getFullYear(e.date) = year
                                      /\ (kind = "income") <=>
                                             (toLowerCase(e.category) = INCOME))
        IN \A k \in 0..(m - 1) :
              cum[k + 1] - (IF k = 0 THEN 0 ELSE cum[k]) =
                  SumSeq([i \in 1..Len(counted) |->
                             IF getMonth(counted[i].date) # k THEN 0
                             ELSE IF kind = "income" THEN counted[i].amount
                             ELSE Abs(counted[i].amount)])

C10_Witness ==
    /\ call = "total"
    /\ kind = "income"
    /\ Returned
    /\ \E i \in 1..Len(expenses) :
           /\ expenses[i].category = INCOME_CAP
           /\ getFullYear(expenses[i].date) = year
           /\ expenses[i].amount > 0
    /\ \E i \in 1..Len(expenses) :
           /\ expenses[i].category = FOOD
           /\ getFullYear(expenses[i].date) = year
           /\ expenses[i].amount # 0
    /\ cum[MonthsPerYear] = 5

----------------------------------------------------------------------------
(* Properties of the target lines *)

ChartDone == call = "chart"

\* the datasets of the finished chart that carry the target line
TargetDatasets == SelectSeq(result, LAMBDA d : d.label = "Target Progress")

\* the transactions of the charted category in the charted year
OfCategoryAndYear ==
    SelectSeq(expenses, LAMBDA e : e.category = category /\ getFullYear(e.date) = year)

\* the value the claim gives for month index i1 - 1: T * (i + 1) / 12
ClaimedTargetValue(T, i1) == Divide(T * ((i1 - 1) + 1), MonthsPerYear)

\* C11: for every yearly target T > 0 the target-progress line has exactly
\* twelve values, the value at month index i is T * (i + 1) / 12, the line is
\* strictly increasing and ends exactly at T, and for T = 1200 it is
\* [100, 200, ..., 1200].
C11_TargetProgressLine ==
    (ChartDone /\ TargetOf(targets, category) > 0) =>
        LET T == TargetOf(targets, category)
            line == getLinearTargetProgress(T)
        IN /\ Len(TargetDatasets) = 1
           /\ TargetDatasets[1].data = line
           /\ Len(line) = 12
           /\ \A j \in 1..12 : line[j] = ClaimedTargetValue(T, j)
           /\ \A j \in 1..11 : NumberLess(line[j], line[j + 1])
           /\ line[12] = FromInt(T)
           /\ (T = 1200 => line = [j \in 1..12 |-> FromInt(100 * j)])

\* C12: when the transaction list holds no transaction of the charted
\* category and year, the target line of the chart is empty, also when the
\* yearly target of the category is greater than 0.
C12_EmptyTargetLine ==
    (ChartDone /\ OfCategoryAndYear = <<>>) =>
        \A j \in 1..Len(TargetDatasets) : TargetDatasets[j].data = <<>>

----------------------------------------------------------------------------
(* Properties of the segment style *)

\* the segment joins two adjacent points that both have data
AdjacentWithData ==
    /\ ctx.p1DataIndex - ctx.p0DataIndex = 1
    /\ HasDataAt(hasData, ctx.p0DataIndex)
    /\ HasDataAt(hasData, ctx.p1DataIndex)

----------------------------------------------------------------------------
(* Properties of the two-point target line *)

PointsChartDone == call = "pointsChart"

\* the datasets of the finished chart labelled "Target"
PointTargetDatasets == SelectSeq(result, LAMBDA d : d.label = "Target")

\* the transactions of the charted category
OfCategory == SelectSeq(expenses, LAMBDA e : e.category = category)

EarliestDate ==
    (CHOOSE e \in Range(OfCategory) :
        \A f \in Range(OfCategory) : getTime(e.date) <= getTime(f.date)).date

LatestDate ==
    (CHOOSE e \in Range(OfCategory) :
        \A f \in Range(OfCategory) : getTime(f.date) <= getTime(e.date)).date

\* C20: in the per-transaction view a category with target T > 0 and at
\* least one transaction gets a target dataset of exactly two points, (date of
\* its earliest transaction, 0) and (date of its latest transaction, T); with
\* T > 0 and no transaction the dataset is empty; with T <= 0 there is no
\* target dataset.
C20_TwoPointTargetLine ==
    PointsChartDone =>
        LET T == TargetOf(targets, category)
        IN /\ (T > 0 /\ OfCategory # <<>>) =>
                  /\ Len(PointTargetDatasets) = 1
                  /\ PointTargetDatasets[1].data =
                         <<[x |-> EarliestDate, y |-> 0], [x |-> LatestDate, y |-> T]>>
           /\ (T > 0 /\ OfCategory = <<>>) =>
                  /\ Len(PointTargetDatasets) = 1
                  /\ PointTargetDatasets[1].data = <<>>
           /\ T <= 0 => PointTargetDatasets = <<>>

\* a chart of a category with a target whose transactions are stored latest first
C20_Witness ==
    /\ PointsChartDone
    /\ TargetOf(targets, category) > 0
    /\ Len(OfCategory) = 2
    /\ getTime(OfCategory[1].date) > getTime(OfCategory[2].date)

----------------------------------------------------------------------------
(* The end-to-end scenario *)

\* the category the scenario expects for a row
ScenarioCategoryOf(row) == IF row.description = SALARY THEN INCOME ELSE GROCERIES

\* C19: with categories ["income", "Groceries", "Other"], the pattern
\* Groceries -> ["rewe"] and the amount-aware classifier, the transactions
\* (Jan 5, "REWE Markt", -42.50), (Feb 10, "Salary", 2500) and
\* (Mar 1, "REWE Markt", -30) of one year are classified Groceries, income,
\* Groceries; the monthly Groceries series has cumulative 72.50 at month
\* index 2 and the income series has cumulative 2500 at month index 2.
C19_Scenario ==
    /\ \A i \in 1..Len(expenses) : expenses[i].category = ScenarioCategoryOf(rows[i])
    /\ (call = "perMonth" /\ category = GROCERIES /\ m >= 3) => cum[3] = 7250
    /\ (call = "perMonth" /\ category = INCOME /\ m >= 3) => cum[3] = 250000
    /\ (call = "total" /\ kind = "income" /\ m >= 3) => cum[3] = 250000

\* the three rows are classified and the Groceries series is complete
C19_Witness ==
    /\ Len(expenses) = 3
    /\ call = "perMonth"
    /\ category = GROCERIES
    /\ m = MonthsPerYear
    /\ cum[3] = 7250

----------------------------------------------------------------------------
(* Properties of App *)

\* C14: in every reachable state of App, however template imports and expense
\* imports interleave, every stored expense was classified with the stored
\* categories and patterns, so its category is a member of the category list.
C14_NoStaleClassification ==
    \A i \in 1..Len(expenses) :
        /\ arrayIncludes(categories, expenses[i].category)
        /\ expenses[i].category =
               categorizeExpensePatternOnly(expenses[i].description, patterns, categories)

\* the rows of a template that name a category
NamedRows(file) == SelectSeq(file.rows, LAMBDA r : StringOfCell(r.category) # <<>>)

\* the patterns of a row: the comma-separated parts, trimmed, blanks left out
PatternsOfRow(r) ==
    LET str == IF CellTruthy(r.patterns) THEN StringOfCell(r.patterns) ELSE <<>>
        parts == SplitComma(str)
    IN SelectSeq([j \in 1..Len(parts) |-> trim(parts[j])], LAMBDA q : q # <<>>)

\* a template whose import succeeds
TemplateValid(file) ==
    /\ file.header = "ok"
    /\ \A i \in 1..Len(NamedRows(file)) : PatternsOfRow(NamedRows(file)[i]) # <<>>

\* the last row of the template that names the category c
LastRowOf(file, c) ==
    LET named == NamedRows(file)
        at == {i \in 1..Len(named) : StringOfCell(named[i].category) = c}
    IN named[CHOOSE i \in at : \A j \in at : j <= i]

\* the state after the step holds exactly the rows of the template
HoldsTemplate(file) ==
    LET named == NamedRows(file)
    IN /\ categories' = [i \in 1..Len(named) |-> StringOfCell(named[i].category)]
       /\ DOMAIN targets' = Range(categories')
       /\ DOMAIN remarks' = Range(categories')
       /\ DOMAIN patterns' = Range(categories')
       /\ \A c \in Range(categories') :
              /\ targets'[c] = OrZero(NumberOfCell(LastRowOf(file, c).target))
              /\ remarks'[c] = (IF CellTruthy(LastRowOf(file, c).remark)
                                THEN StringOfCell(LastRowOf(file, c).remark) ELSE <<>>)
              /\ patterns'[c] = PatternsOfRow(LastRowOf(file, c))
       /\ targetsDraft' = targets'
       /\ remarksDraft' = remarks'
       /\ expenses' = <<>>

\* C15: when a template import completes successfully, categories, targets,
\* remarks and patterns hold exactly the rows of the imported template
\* (nothing of the previous configuration survives; of rows naming the same
\* category the last one gives the values), the target and remark drafts
\* equal the new targets and remarks, and the expense list is empty.
C15_TemplateReplaces ==
    [][\A inv \in Suspended("handleTemplateImport") :
           (inv \notin pending' /\ TemplateValid(inv.templateFile))
               => HoldsTemplate(inv.templateFile)]_vars

\* the template with the rows Other and income has been imported
C15_Witness ==
    /\ categories = <<OTHER_CAT, INCOME>>
    /\ targets = (OTHER_CAT :> -5) @@ (INCOME :> 0)
    /\ targetsDraft = targets
    /\ expenses = <<>>
    /\ pending = {}

\* C16: in every state of App reachable by template imports (successful or
\* failed), opening the edit dialog, changing targets or remarks, saving and
\* cancelling, every key of targets, of remarks and of patterns is a member of
\* the category list.
C16_ConfigKeys ==
    /\ DOMAIN targets \subseteq Range(categories)
    /\ DOMAIN remarks \subseteq Range(categories)
    /\ DOMAIN patterns \subseteq Range(categories)

\* an edited target and an edited remark have been saved
C16_Witness ==
    /\ ~editOpen
    /\ FOOD \in DOMAIN targets
    /\ targets[FOOD] = 7
    /\ remarks[FOOD] = <<"b">>

\* C17: in every reachable state of App, after any sequence of template
\* imports and target edits followed by Save, every value stored in targets is
\* a number >= 0.
C17_TargetsNotNegative ==
    \A c \in DOMAIN targets : targets[c] >= 0

\* one of the edit-dialog operations
DialogOperation ==
    \/ handleEditTargets
    \/ handleTargetChange
    \/ handleRemarkChange
    \/ handleSaveTargets
    \/ CancelEdit

IsIncomeName(c) == toLowerCase(c) = INCOME

\* a transaction of category c, alone in the list, is in the month sum of the
\* combined income series
FeedsIncomeSeries(c) ==
    LET e == [date |-> [y |-> 2025, mo |-> 1, day |-> 1], description |-> <<"r">>,
              amount |-> 5, category |-> c]
        filtered == FilterTotal(<<e>>, "income", 2025, 1)
    IN filtered = <<e>> /\ MonthSumTotal(filtered, "income") = 5

\* C18: no edit-dialog operation (open, change target, change remark, save,
\* cancel) changes the target or the remark stored for the income category,
\* whatever the letter case of its name, while the transactions of the income
\* category still feed the combined income series.
C18_IncomeNotEdited ==
    /\ [][DialogOperation =>
             \A c \in DOMAIN targets :
                 IsIncomeName(c) =>
                     /\ c \in DOMAIN targets' /\ targets'[c] = targets[c]
                     /\ c \in DOMAIN remarks' /\ remarks'[c] = remarks[c]]_vars
    /\ [](\A c \in Range(categories) : IsIncomeName(c) => FeedsIncomeSeries(c))

\* next to the category Income an edited target of Food has been saved
C18_Witness ==
    /\ categories = <<INCOME_CAP, FOOD>>
    /\ ~editOpen
    /\ targets[FOOD] = -3
    /\ targets[INCOME_CAP] = 10

----------------------------------------------------------------------------
(* Properties of the Overspend Evaluator *)

OverspendDone == call = "overspend"

\* the transactions of the current year, those of one category among them, and
\* the months of the current year holding a transaction
OfYear == {i \in 1..Len(expenses) : expenses[i].date.y = year}

OfYearAndCategory(c) == {i \in OfYear : expenses[i].category = c}

ActiveMonths == {expenses[i].date.mo : i \in OfYear}

RECURSIVE SumAmounts(_)
SumAmounts(I) ==
    IF I = {} THEN 0
    ELSE LET i == CHOOSE x \in I : TRUE IN expenses[i].amount + SumAmounts(I \ {i})

YTDTotal(c) == SumAmounts(OfYearAndCategory(c))

ThisMonthTotal(c) == SumAmounts({i \in OfYearAndCategory(c) : expenses[i].date.mo = m})

Flagged(c) == \E i \in 1..Len(result) : result[i] = c

\* C21: a category is flagged exactly when abs(thisMonthTotal) exceeds 1.2 times
\* abs(YTD total) / max(monthsActiveThisYear, 1), with the months counted over
\* the transactions of all categories; a YTD total of -1000 with 2 active months
\* is flagged for a current-month total of -650 and not for -550.
C21_OverspendFlag ==
    OverspendDone =>
        \A c \in Range(OverspendCategories) :
            LET n == IF Cardinality(ActiveMonths) > 1 THEN Cardinality(ActiveMonths) ELSE 1
            IN /\ Flagged(c) <=> (10 * n * Abs(ThisMonthTotal(c)) > 12 * Abs(YTDTotal(c)))
               /\ (YTDTotal(c) = -1000 /\ Cardinality(ActiveMonths) = 2) =>
                      /\ ThisMonthTotal(c) = -650 => Flagged(c)
                      /\ ThisMonthTotal(c) = -550 => ~Flagged(c)

\* Food has a YTD total of -1000 over two active months, -650 of it in the
\* current month, and is flagged
C21_Witness ==
    /\ OverspendDone
    /\ YTDTotal(FOOD) = -1000
    /\ Cardinality(ActiveMonths) = 2
    /\ ThisMonthTotal(FOOD) = -650
    /\ Flagged(FOOD)

----------------------------------------------------------------------------
(* Properties of the expense import *)

\* the step in which the suspended handleFile inv reads its last file, that
\* file has the three columns, and the expenses are stored
StoresExpenses(inv) ==
    /\ inv \in Suspended("handleFile")
    /\ Len(inv.expenseFiles) = 1
    /\ inv.expenseFiles[1].header # "missing"
    /\ pending' = pending \ {inv}

\* a pattern of the category at position k of cats occurs in the description
\* d, both lower-cased, the pattern trimmed
MatchesAt(d, pats, cats, k) ==
    \E q \in Range(PatsOf(pats, cats[k])) :
        LET t == trim(toLowerCase(q))
        IN /\ q # <<>>
           /\ \E o \in 0..(Len(d) - Len(t)) :
                  \A n \in 1..Len(t) : LowerChar(d[o + n]) = t[n]

\* C22: the expenses stored by an import are classified by description,
\* patterns and category order alone: two of them with the same description
\* have the same category, whatever their amounts, and an expense whose
\* description matches a pattern of an income category, with no earlier category
\* matching, has that income category, whatever the sign of its amount.
C22_PatternOnlyIgnoresAmount ==
    [][\A inv \in pending :
           StoresExpenses(inv) =>
               /\ \A i, j \in 1..Len(expenses') :
                      expenses'[i].description = expenses'[j].description
                          => expenses'[i].category = expenses'[j].category
               /\ \A i \in 1..Len(expenses'), k \in 1..Len(inv.categories) :
                      (/\ toLowerCase(inv.categories[k]) = INCOME
                       /\ MatchesAt(expenses'[i].description, inv.patterns, inv.categories, k)
                       /\ \A n \in 1..(k - 1) :
                              ~MatchesAt(expenses'[i].description, inv.patterns,
                                         inv.categories, n))
                          => expenses'[i].category = inv.categories[k]]_vars

\* a debit and a credit with the same description are stored, both in the
\* category Income, whose pattern they match
C22_Witness ==
    /\ categories = <<INCOME_CAP, FOOD>>
    /\ Len(expenses) = 2
    /\ expenses[1].description = expenses[2].description
    /\ expenses[1].amount < 0
    /\ expenses[2].amount > 0
    /\ expenses[1].category = INCOME_CAP
    /\ expenses[2].category = INCOME_CAP

----------------------------------------------------------------------------
(* Properties of the per-transaction series *)

\* the transactions handed to getCumulativePoints: those of the category
PointsInput == SelectSeq(expenses, LAMBDA e : e.category = category)

\* the place of the k-th transaction in date order, equal dates in input order
PlaceOf(input, k) ==
    Cardinality({j \in 1..Len(input) :
                    \/ getTime(input[j].date) < getTime(input[k].date)
                    \/ (getTime(input[j].date) = getTime(input[k].date) /\ j <= k)})

\* C23: getCumulativePoints returns one point per transaction, in date order
\* with equal dates in input order; each point carries the date, description
\* and raw amount of its transaction; y rises from point to point (from 0) by
\* the delta of the transaction, amount for the category "income" and -amount
\* otherwise; the call leaves the transaction list as it was.
C23_PointsShape ==
    /\ [](call = "points" =>
             /\ Len(result) = Len(PointsInput)
             /\ \A k \in 1..Len(PointsInput) :
                    LET p == PlaceOf(PointsInput, k)
                        tx == PointsInput[k]
                    IN /\ result[p].x = tx.date
                       /\ result[p].date = tx.date
                       /\ result[p].description = tx.description
                       /\ result[p].amount = tx.amount
                       /\ result[p].y - (IF p = 1 THEN 0 ELSE result[p - 1].y)
                              = (IF category = INCOME THEN tx.amount ELSE -tx.amount))
    /\ [][call' = "points" => expenses' = expenses]_vars

\* two transactions of the category, the later one first in the list, and
\* the points in date order
C23_Witness ==
    /\ call = "points"
    /\ Len(PointsInput) = 2
    /\ getTime(PointsInput[1].date) > getTime(PointsInput[2].date)
    /\ result[1].date = PointsInput[2].date
    /\ result[2].date = PointsInput[1].date
    /\ result[2].y = result[1].y - PointsInput[1].amount

----------------------------------------------------------------------------
(* Properties of the classifier: amounts that are not positive *)

\* an amount-aware call with amount <= 0 and an income category in the list
DebitCall ==
    /\ call = "aware"
    /\ amount <= 0
    /\ \E i \in 1..Len(categories) : toLowerCase(categories[i]) = INCOME

\* C24: with amount <= 0 and an income category in the list, the amount-aware
\* call never returns the income category.
C24_DebitNeverIncome == DebitCall => toLowerCase(result) # INCOME

\* C24 as amended: with amount <= 0 the amount-aware call returns the income
\* category only through the fallback, that is only when no pattern of a
\* non-income category matches, "Other" is not listed and the income
\* category is the first of the list.
C24_DebitIncomeOnlyByFallback ==
    (DebitCall /\ toLowerCase(result) = INCOME)
        => /\ MatchingPositions = {}
           /\ OTHER_CAT \notin Range(categories)
           /\ result = categories[1]

\* a pattern of the income category matches the description of a debit, and
\* the call returns another category
C24_Witness ==
    /\ DebitCall
    /\ \E i \in 1..Len(categories) :
           /\ toLowerCase(categories[i]) = INCOME
           /\ AnyPatternAware(toLowerCase(desc), PatsOf(patterns, categories[i]))
    /\ toLowerCase(result) # INCOME

----------------------------------------------------------------------------
(* Properties of the classifier: blank patterns *)

\* positions of the eligible categories with a matching pattern that is
\* neither empty nor whitespace only
NonBlankMatchingPositions ==
    {i \in 1..Len(categories) :
        /\ Eligible(i)
        /\ \E j \in 1..Len(PatsOf(patterns, categories[i])) :
               /\ trim(PatsOf(patterns, categories[i])[j]) # <<>>
               /\ MatchesCalled(PatsOf(patterns, categories[i])[j])}

\* C25: in both variants an empty or whitespace-only pattern never makes its
\* category the result: a description that matches no non-blank pattern is
\* resolved by the fallback rule ("Other" if listed, else the first category,
\* else "").
C25_BlankPatternNeverMatches ==
    (LoopReached /\ NonBlankMatchingPositions = {})
        => result = (IF OTHER_CAT \in Range(categories) THEN OTHER_CAT
                     ELSE IF categories # <<>> THEN categories[1] ELSE EMPTY)

----------------------------------------------------------------------------
(* Properties of failed imports *)

\* C26: when a template import fails (a sheet without rows, a missing column,
\* or a named row without a pattern, also after valid rows), the step that ends
\* it leaves categories, targets, remarks, patterns, both drafts and the
\* expenses as they were and sets the error message.
C26_FailedTemplateImport ==
    [][\A inv \in Suspended("handleTemplateImport") :
           (inv \notin pending' /\ ~TemplateValid(inv.templateFile))
               => /\ categories' = categories
                  /\ targets' = targets
                  /\ remarks' = remarks
                  /\ patterns' = patterns
                  /\ targetsDraft' = targetsDraft
                  /\ remarksDraft' = remarksDraft
                  /\ expenses' = expenses
                  /\ error' # "null"]_vars

\* a template whose second row has no pattern was rejected while a
\* configuration and expenses were stored
C26_Witness ==
    /\ error = "Pattern column is mandatory"
    /\ pending = {}
    /\ categories # <<>>
    /\ expenses # <<>>

\* C27: when handleFile is invoked with an empty category list, or reaches a
\* selected file without one of the three columns (also after files that were
\* read), the step leaves the expenses and the configuration as they were,
\* sets the error message and ends the import: the rows read before are not
\* stored.
C27_FailedExpenseImport ==
    [][/\ (FileChooser \in pending /\ FileChooser \notin pending' /\ categories = <<>>)
             => /\ error' = "Please import the category/target template first!"
                /\ {inv \in pending' : inv.handler = "handleFile"} = {}
                /\ expenses' = expenses
                /\ <<categories, patterns, targets, remarks, targetsDraft, remarksDraft>>'
                       = <<categories, patterns, targets, remarks, targetsDraft, remarksDraft>>
       /\ \A inv \in Suspended("handleFile") :
              (inv \notin pending' /\ Head(inv.expenseFiles).header = "missing")
                  => /\ error' = "Excel sheet must have columns"
                     /\ {other \in pending' : other.handler = "handleFile"} = {}
                     /\ expenses' = expenses
                     /\ <<categories, patterns, targets, remarks, targetsDraft, remarksDraft>>'
                            = <<categories, patterns, targets, remarks, targetsDraft,
                               remarksDraft>>]_vars

\* an expense file without the columns was rejected while expenses of an
\* earlier import were stored
C27_Witness ==
    /\ error = "Excel sheet must have columns"
    /\ pending = {}
    /\ categories # <<>>
    /\ expenses # <<>>

----------------------------------------------------------------------------
(* Properties of the edit dialog *)

StoredConfiguration == <<targets, remarks, categories, patterns, expenses>>

\* C28: a change of a target or remark field and Cancel (or closing the
\* dialog) leave targets, remarks, categories, patterns and expenses as they
\* are; opening the dialog shows the stored targets and remarks, whatever
\* edits were abandoned before; and apart from a completing template import
\* only Save changes targets and remarks, to the drafts.
C28_CancelDiscardsDraft ==
    [][/\ (handleTargetChange \/ handleRemarkChange \/ CancelEdit)
              => StoredConfiguration' = StoredConfiguration
       /\ (~editOpen /\ editOpen')
              => /\ targetsDraft' = targets
                 /\ remarksDraft' = remarks
                 /\ StoredConfiguration' = StoredConfiguration
       /\ ((targets' # targets \/ remarks' # remarks) /\ pending' = pending)
              => /\ editOpen
                 /\ ~editOpen'
                 /\ targets' = targetsDraft
                 /\ remarks' = remarksDraft]_vars

\* the dialog was left by Cancel after an edit: it is closed and the draft
\* still differs from the stored targets
C28_Witness ==
    /\ ~editOpen
    /\ pending = {}
    /\ categories = <<FOOD>>
    /\ targets[FOOD] = 10
    /\ targetsDraft[FOOD] = 7

----------------------------------------------------------------------------
(* Properties relating the series builders *)

\* C29: the cum array returned by getCumulativePerMonthAndDataMonths equals
\* the array of getCumulativePerMonth for the same transactions, category and
\* year, and the cum array of getCumulativeTotalAndDataMonths equals the array
\* of getCumulativeTotal for the same transactions, kind and year.
C29_GateKeepsValues ==
    Returned =>
        cum = (IF call = "perMonth" THEN getCumulativePerMonth(expenses, category, year)
               ELSE getCumulativeTotal(expenses, kind, year))

\* the transactions all fall in the requested calendar year
OneCalendarYear == \A i \in 1..Len(expenses) : getFullYear(expenses[i].date) = year

\* C30: when all transactions fall in one calendar year and the category has
\* transactions, the running total of the last point of getCumulativePoints
\* for the category equals the month-11 cumulative value returned by
\* getCumulativePerMonthAndDataMonths for that category and year.
C30_ViewsAgreeOnTotal ==
    (call = "perMonth" /\ Returned /\ OneCalendarYear /\ PointsInput # <<>>) =>
        LET points == getCumulativePoints(PointsInput, category)
        IN points[Len(points)].y = cum[MonthsPerYear]

====
